---- MODULE Spec2Model ----
(***************************************************************************)
(* A model of the ts-parsec lexer cursor (src/src/lex.ts) and of the       *)
(* monadic parser combinators (src/src/parse.ts, second half of the file). *)
(*                                                                         *)
(* Strings are sequences of one-character strings.  A parser is a value    *)
(* [op, arg, ps]; Parse(p, sp) is what `p.parse(lexer)` does to a lexer    *)
(* whose cursor is sp: it yields the way the promise settles, the result   *)
(* or the thrown value, the caller's cursor afterwards and the list of the *)
(* argument parsers it ran.                                                *)
(***************************************************************************)
EXTENDS Integers, Sequences, FiniteSets, TLC

\* ---------------------------------------------------------------- bounds
\* longest source text
MaxLen == 3

\* iterations of one `many` loop that are followed; an iteration either
\* consumes a character or repeats for ever, so MaxLen + 2 iterations are
\* reached only by a loop that never ends
MaxIter == MaxLen + 2

\* The characters the modelled sources are made of: two letters that are
\* static tokens, the blank, and a character no rule accepts.
Chars == {"a", "b", " ", "?"}

SourceName == "test"

\* ------------------------------------------------------ sequence helpers
Drop(s, n) == SubSeq(s, n + 1, Len(s))

Take(s, n) == SubSeq(s, 1, n)

\* String.prototype.startsWith
StartsWith(s, pre) == Len(pre) <= Len(s) /\ Take(s, Len(pre)) = pre

\* s.indexOf(t) > -1
Contains(s, t) ==
  \E i \in 0..(Len(s) - Len(t)) : SubSeq(s, i + 1, i + Len(t)) = t

\* F(x) with x evaluated once, however often F uses it
With(x, F(_)) == CHOOSE v \in {F(y) : y \in {x}} : TRUE

RECURSIVE FirstWord(_)
\* s.split(' ', 1)[0]
FirstWord(s) ==
  IF s = <<>> \/ Head(s) = " " THEN <<>> ELSE <<Head(s)>> \o FirstWord(Tail(s))

RECURSIVE AllSeqs(_, _)
AllSeqs(S, n) ==
  IF n = 0 THEN {<<>>}
  ELSE AllSeqs(S, n - 1) \cup {Append(s, c) : s \in AllSeqs(S, n - 1), c \in S}

\* ------------------------------------------------------- SourcePosition
RECURSIVE cleanCRLF(_)
\* every '\r' of the string is dropped
cleanCRLF(str) ==
  IF str = <<>> THEN <<>>
  ELSE IF Head(str) = "\r" THEN cleanCRLF(Tail(str))
  ELSE <<Head(str)>> \o cleanCRLF(Tail(str))

NewSourcePosition(source, name) ==
  [name |-> name, future |-> cleanCRLF(source), line |-> 1, column |-> 1]

eof(sp) == Len(sp.future) = 0

rest(sp) == sp.future

\* a _step that leaves the column running over a line break
Step_keepsColumn(sp) ==
  IF Head(sp.future) = "\n"
  THEN [sp EXCEPT !.future = Tail(sp.future), !.line = sp.line + 1,
                  !.column = sp.column + 1]
  ELSE [sp EXCEPT !.future = Tail(sp.future), !.column = sp.column + 1]

\* _step on a cursor that is not at the end
Step(sp) ==
  IF Head(sp.future) = "\n"
  THEN [sp EXCEPT !.future = Tail(sp.future), !.line = sp.line + 1, !.column = 1]
  ELSE [sp EXCEPT !.future = Tail(sp.future), !.column = sp.column + 1]

RECURSIVE advance(_, _)
\* advance(step): thrown is TRUE when a step hit the end (UnexpectedEOF)
advance(sp, step) ==
  IF step = 0 THEN [sp |-> sp, thrown |-> FALSE]
  ELSE IF eof(sp) THEN [sp |-> sp, thrown |-> TRUE]
  ELSE With(Step(sp), LAMBDA s : advance(s, step - 1))

\* a clone made without the name of the source
clone_unnamed(sp) ==
  [NewSourcePosition(sp.future, "") EXCEPT !.line = sp.line, !.column = sp.column]

\* new SourcePosition(future, name), then line and column are copied
clone(sp) ==
  [NewSourcePosition(sp.future, sp.name) EXCEPT !.line = sp.line, !.column = sp.column]

assign(other) ==
  [name |-> other.name, future |-> other.future, line |-> other.line, column |-> other.column]

\* a compareTo with the answers of its second and third test exchanged
compareTo_exchanged(this, other) ==
  IF this.future = other.future /\ this.line = other.line
     /\ this.column = other.column /\ this.name = other.name
  THEN "equal"
  ELSE IF this.name = other.name /\ Contains(this.future, other.future)
  THEN "forward"
  ELSE IF this.name = other.name /\ Contains(other.future, this.future)
  THEN "behind"
  ELSE "irrelevant"

compareTo(this, other) ==
  IF this.future = other.future /\ this.line = other.line
     /\ this.column = other.column /\ this.name = other.name
  THEN "equal"
  ELSE IF this.name = other.name /\ Contains(this.future, other.future)
  THEN "behind"
  ELSE IF this.name = other.name /\ Contains(other.future, this.future)
  THEN "forward"
  ELSE "irrelevant"

\* ------------------------------------------------------------- failures
NoErr == [line |-> 0, column |-> 0, kind |-> "none", msg |-> <<>>, pfs |-> <<>>]

ParseFailure(msg, line, column) ==
  [line |-> line, column |-> column, kind |-> "ParseFailure", msg |-> msg, pfs |-> <<>>]

UnexpectedEOF ==
  [line |-> 0, column |-> 0,
   kind |-> "UnexpectedEOF", msg |-> <<"unexpected end of file">>, pfs |-> <<>>]

\* new ParseFailures(...pfs)
ParseFailures(pfs) ==
  [line |-> 0, column |-> 0, kind |-> "ParseFailures", msg |-> <<>>, pfs |-> pfs]

\* a thrown value that is not a ParseFailure (Error, RangeError)
OtherError(kind, msg) ==
  [line |-> 0, column |-> 0, kind |-> kind, msg |-> msg, pfs |-> <<>>]

\* e instanceof ParseFailure
IsParseFailure(e) == e.kind \in {"ParseFailure", "ParseFailures", "UnexpectedEOF"}

\* a.combine(b), one argument
combine(a, b) ==
  IF a.kind = "ParseFailures"
  THEN IF b.kind = "ParseFailures"
       THEN [a EXCEPT !.pfs = a.pfs \o b.pfs]
       ELSE [a EXCEPT !.pfs = Append(a.pfs, b)]
  ELSE ParseFailures(<<a, b>>)

\* ----------------------------------------------------------------- Token
NoToken == [line |-> 0, column |-> 0, type |-> "", literal |-> <<>>]

Token(type, literal, line, column) ==
  [line |-> line, column |-> column, type |-> type, literal |-> literal]

TK_NUMBER_NOFOLLOW == "__number_nofollow"

\* --------------------------------------------------------------- RuleSet
\* staticGuard keeps the insertion order of the Map; comment.line is <<>>
\* and comment.nested.defined is FALSE where the source has `undefined`.
NoNested == [defined |-> FALSE, begin |-> <<>>, end |-> <<>>, nested |-> FALSE]

\* presetConfig.skipSpaces || true, the option being "true", "false" or
\* "undefined": a truthy option is the result, and otherwise true is
skipSpacesOf(option) == IF option = "true" THEN option = "true" ELSE TRUE

\* new RuleSet([{pattern: 'a', tokenType: 'a'}, {pattern: 'b', tokenType: 'b'}], {})
RuleSetAB ==
  [skipSpaces |-> TRUE,
   staticGuard |-> << [key |-> <<"a">>, tk |-> "a"], [key |-> <<"b">>, tk |-> "b"] >>,
   comment |-> [line |-> <<>>, nested |-> NoNested],
   quotes |-> <<>>,
   dynamicGuard |-> <<>>]

\* new RuleSet([{pattern: 'a', tokenType: 'a'}, {pattern: ',', tokenType: ','}], {})
RuleSetList ==
  [RuleSetAB EXCEPT !.staticGuard = << [key |-> <<"a">>, tk |-> "a"],
                                       [key |-> <<",">>, tk |-> ","] >>]

\* ---------------------------------------------------- regular expressions
\* The patterns of the dynamic rules: a character class, a negated class, a
\* sequence, an ordered alternation, and the greedy ? and *.
Cls(S) == [t |-> "cls", set |-> S, subs |-> <<>>]

NotCls(S) == [t |-> "not", set |-> S, subs |-> <<>>]

SeqRe(subs) == [t |-> "seq", set |-> {}, subs |-> subs]

AltRe(subs) == [t |-> "alt", set |-> {}, subs |-> subs]

OptRe(a) == [t |-> "opt", set |-> {}, subs |-> <<a>>]

StarRe(a) == [t |-> "star", set |-> {}, subs |-> <<a>>]

RECURSIVE Match(_, _, _)
RECURSIVE MatchFrom(_, _, _)
\* the ends of the matches of re in s from index i, in the order in which a
\* backtracking matcher tries them: the first one is the match
Match(re, s, i) ==
  CASE re.t = "cls" -> IF i < Len(s) /\ s[i + 1] \in re.set THEN <<i + 1>> ELSE <<>>
    [] re.t = "not" -> IF i < Len(s) /\ s[i + 1] \notin re.set THEN <<i + 1>> ELSE <<>>
    [] re.t = "seq" ->
         IF re.subs = <<>> THEN <<i>>
         ELSE MatchFrom(SeqRe(Tail(re.subs)), s, Match(Head(re.subs), s, i))
    [] re.t = "alt" ->
         IF re.subs = <<>> THEN <<>>
         ELSE Match(Head(re.subs), s, i) \o Match(AltRe(Tail(re.subs)), s, i)
    [] re.t = "opt" -> Match(re.subs[1], s, i) \o <<i>>
    [] re.t = "star" ->
         MatchFrom(re, s, SelectSeq(Match(re.subs[1], s, i), LAMBDA e : e > i)) \o <<i>>

MatchFrom(re, s, ends) ==
  IF ends = <<>> THEN <<>>
  ELSE Match(re, s, Head(ends)) \o MatchFrom(re, s, Tail(ends))

\* s.match(pat) of a pattern that starts with ^: m[0], or <<>> for null (no
\* pattern of the rules matches the empty string)
match(s, pat) ==
  With(Match(pat, s, 0), LAMBDA ends : IF ends = <<>> THEN <<>> ELSE Take(s, Head(ends)))

Digits == {"0", "1", "2", "3", "4", "5", "6", "7", "8", "9"}

Upper == {"A", "B", "C", "D", "E", "F", "G", "H", "I", "J", "K", "L", "M",
          "N", "O", "P", "Q", "R", "S", "T", "U", "V", "W", "X", "Y", "Z"}

Lower == {"a", "b", "c", "d", "e", "f", "g", "h", "i", "j", "k", "l", "m",
          "n", "o", "p", "q", "r", "s", "t", "u", "v", "w", "x", "y", "z"}

Letters == Upper \cup Lower

HexDigits == Digits \cup {"A", "B", "C", "D", "E", "F"} \cup {"a", "b", "c", "d", "e", "f"}

\* the numeric separator
Sep == "_"

\* [+\-]?
SignRe == OptRe(Cls({"+", "-"}))

\* \d[\d_]*
DecimalRe == SeqRe(<<Cls(Digits), StarRe(Cls(Digits \cup {Sep}))>>)

\* (\d[\d_]*(\.[\d_]*)?e[+\-]?\d[\d_]*|\d[\d_]*\.[\d_]*)
FloatBodyRe ==
  AltRe(<< SeqRe(<<DecimalRe,
                   OptRe(SeqRe(<<Cls({"."}), StarRe(Cls(Digits \cup {Sep}))>>)),
                   Cls({"e"}), OptRe(Cls({"+", "-"})), DecimalRe>>),
           SeqRe(<<DecimalRe, Cls({"."}), StarRe(Cls(Digits \cup {Sep}))>>) >>)

\* ^[+\-]?(...)([A-DF-Za-df-z]|e[^\d_+\-]|e[+\-][^\d_])
FloatNoFollowRe ==
  SeqRe(<<SignRe, FloatBodyRe,
          AltRe(<< Cls(Letters \ {"E", "e"}),
                   SeqRe(<<Cls({"e"}), NotCls(Digits \cup {"_", "+", "-"})>>),
                   SeqRe(<<Cls({"e"}), Cls({"+", "-"}), NotCls(Digits \cup {"_"})>>) >>)>>)

\* ^[+\-]?(...)
FloatRe == SeqRe(<<SignRe, FloatBodyRe>>)

\* 0[Bb], 0[Oo], 0[Xx]
PrefixRe(letters) == SeqRe(<<Cls({"0"}), Cls(letters)>>)

\* ^[+\-]?(0[Bb][^01]|0[Bb][01][01_]*[A-Za-z2-9]|0[Oo][^0-7]|0[Oo][0-7][0-7_]*[A-Za-z89]
\*         |0[Xx][^A-Fa-f0-9]|0[Xx][0-9A-Fa-f][0-9A-Fa-f_]*[G-Zg-z]|\d[\d_]*[A-Za-z])
IntegerNoFollowRe ==
  LET bin == {"0", "1"}
      oct == {"0", "1", "2", "3", "4", "5", "6", "7"}
  IN SeqRe(<<SignRe,
             AltRe(<< SeqRe(<<PrefixRe({"B", "b"}), NotCls(bin)>>),
                      SeqRe(<<PrefixRe({"B", "b"}), Cls(bin), StarRe(Cls(bin \cup {Sep})),
                              Cls(Letters \cup (Digits \ bin))>>),
                      SeqRe(<<PrefixRe({"O", "o"}), NotCls(oct)>>),
                      SeqRe(<<PrefixRe({"O", "o"}), Cls(oct), StarRe(Cls(oct \cup {Sep})),
                              Cls(Letters \cup {"8", "9"})>>),
                      SeqRe(<<PrefixRe({"X", "x"}), NotCls(HexDigits)>>),
                      SeqRe(<<PrefixRe({"X", "x"}), Cls(HexDigits),
                              StarRe(Cls(HexDigits \cup {Sep})),
                              Cls(Letters \ HexDigits)>>),
                      SeqRe(<<DecimalRe, Cls(Letters)>>) >>)>>)

\* ^[+\-]?(0[Bb][01][01_]*|0[Oo][0-7][0-7_]*|0[Xx][0-9A-Fa-f][0-9A-Fa-f_]*|\d[\d_]*)
IntegerRe ==
  LET bin == {"0", "1"}
      oct == {"0", "1", "2", "3", "4", "5", "6", "7"}
  IN SeqRe(<<SignRe,
             AltRe(<< SeqRe(<<PrefixRe({"B", "b"}), Cls(bin), StarRe(Cls(bin \cup {Sep}))>>),
                      SeqRe(<<PrefixRe({"O", "o"}), Cls(oct), StarRe(Cls(oct \cup {Sep}))>>),
                      SeqRe(<<PrefixRe({"X", "x"}), Cls(HexDigits),
                              StarRe(Cls(HexDigits \cup {Sep}))>>),
                      DecimalRe >>)>>)

\* the dynamic rules of numbers: {float: true}
FloatRules ==
  << [tk |-> TK_NUMBER_NOFOLLOW, pat |-> FloatNoFollowRe], [tk |-> "float", pat |-> FloatRe] >>

\* the dynamic rules of numbers: {integer: true}
IntegerRules ==
  << [tk |-> TK_NUMBER_NOFOLLOW, pat |-> IntegerNoFollowRe],
     [tk |-> "integer", pat |-> IntegerRe] >>

\* new RuleSet([], {numbers: {integer: true}})
RuleSetInteger ==
  [skipSpaces |-> TRUE,
   staticGuard |-> <<>>,
   comment |-> [line |-> <<>>, nested |-> NoNested],
   quotes |-> <<>>,
   dynamicGuard |-> IntegerRules]

\* new RuleSet([], {numbers: {integer: true, float: true}})
RuleSetNumbers ==
  [skipSpaces |-> TRUE,
   staticGuard |-> <<>>,
   comment |-> [line |-> <<>>, nested |-> NoNested],
   quotes |-> <<>>,
   dynamicGuard |-> FloatRules \o IntegerRules]

\* the markers of block comments
CommentBegin == <<"/", "*">>

CommentEnd == <<"*", "/">>

\* new RuleSet([], {nestedComment: ['/*', '*/'], numbers: {integer: true}})
RuleSetNested ==
  [skipSpaces |-> TRUE,
   staticGuard |-> <<>>,
   comment |-> [line |-> <<>>,
                nested |-> [defined |-> TRUE, begin |-> CommentBegin, end |-> CommentEnd,
                            nested |-> TRUE]],
   quotes |-> <<>>,
   dynamicGuard |-> IntegerRules]

\* new RuleSet([], {nestedComment: {begin: '/*', end: '*/', nested: false},
\*                  numbers: {integer: true}})
RuleSetFlat ==
  [skipSpaces |-> TRUE,
   staticGuard |-> <<>>,
   comment |-> [line |-> <<>>,
                nested |-> [defined |-> TRUE, begin |-> CommentBegin, end |-> CommentEnd,
                            nested |-> FALSE]],
   quotes |-> <<>>,
   dynamicGuard |-> IntegerRules]

\* new RuleSet([{pattern: '-', tokenType: '-'}], {numbers: {integer: true}})
RuleSetMinus ==
  [skipSpaces |-> TRUE,
   staticGuard |-> << [key |-> <<"-">>, tk |-> "-"] >>,
   comment |-> [line |-> <<>>, nested |-> NoNested],
   quotes |-> <<>>,
   dynamicGuard |-> IntegerRules]

\* new RuleSet([], {string: {quotes: {string: '"'}}})
RuleSetString ==
  [skipSpaces |-> TRUE,
   staticGuard |-> <<>>,
   comment |-> [line |-> <<>>, nested |-> NoNested],
   quotes |-> << [quote |-> <<"\"">>, stop |-> <<"\"">>, tokenType |-> "string",
                  escape |-> TRUE, multiline |-> FALSE] >>,
   dynamicGuard |-> <<>>]

\* ----------------------------------------------------------------- Lexer
RECURSIVE SkipLine(_)
\* while (!eof && char !== '\n') advance()
SkipLine(sp) ==
  IF eof(sp) \/ Head(sp.future) = "\n" THEN sp
  ELSE With(Step(sp), LAMBDA s : SkipLine(s))

RECURSIVE skipWhitesLoop(_, _, _)
\* a skipWhites that does not count the begin markers inside a comment
skipWhitesLoop_noDepth(rs, sp, ncLevel) ==
  LET lc == rs.comment.line
      nc == rs.comment.nested
      Again(s, level) == skipWhitesLoop(rs, s, level)
  IN IF eof(sp) THEN sp
     ELSE IF ncLevel # 0 /\ nc.defined
     THEN IF StartsWith(sp.future, nc.end)
          THEN With(advance(sp, Len(nc.end)).sp, LAMBDA s : Again(s, ncLevel - 1))
          ELSE With(Step(sp), LAMBDA s : Again(s, ncLevel))
     ELSE IF Head(sp.future) \in {" ", "\t", "\n"}
          THEN With(Step(sp), LAMBDA s : Again(s, ncLevel))
          ELSE IF lc # <<>> /\ StartsWith(sp.future, lc)
          THEN With(SkipLine(sp), LAMBDA s : Again(s, ncLevel))
          ELSE IF nc.defined /\ StartsWith(sp.future, nc.begin)
          THEN With(advance(sp, Len(nc.begin)).sp, LAMBDA s : Again(s, ncLevel + 1))
          ELSE sp

skipWhitesLoop(rs, sp, ncLevel) ==
  LET lc == rs.comment.line
      nc == rs.comment.nested
      Again(s, level) == skipWhitesLoop(rs, s, level)
  IN IF eof(sp) THEN sp
     ELSE IF ncLevel # 0 /\ nc.defined
     THEN IF StartsWith(sp.future, nc.begin) /\ nc.nested
          THEN With(advance(sp, Len(nc.begin)).sp, LAMBDA s : Again(s, ncLevel + 1))
          ELSE IF StartsWith(sp.future, nc.end)
          THEN With(advance(sp, Len(nc.end)).sp, LAMBDA s : Again(s, ncLevel - 1))
          ELSE With(Step(sp), LAMBDA s : Again(s, ncLevel))
     ELSE IF Head(sp.future) \in {" ", "\t", "\n"}
          THEN With(Step(sp), LAMBDA s : Again(s, ncLevel))
          ELSE IF lc # <<>> /\ StartsWith(sp.future, lc)
          THEN With(SkipLine(sp), LAMBDA s : Again(s, ncLevel))
          ELSE IF nc.defined /\ StartsWith(sp.future, nc.begin)
          THEN With(advance(sp, Len(nc.begin)).sp, LAMBDA s : Again(s, ncLevel + 1))
          ELSE sp

skipWhites(rs, sp) == skipWhitesLoop(rs, sp, 0)

\* what next() does: kind is "token", "EOF" (peaceful end) or "throw"
\* (err is the thrown value); sp is the lexer's cursor afterwards
LexToken(tok, sp) == [sp |-> sp, kind |-> "token", tok |-> tok, err |-> NoErr]

LexEOF(sp) == [sp |-> sp, kind |-> "EOF", tok |-> NoToken, err |-> NoErr]

LexThrow(err, sp) == [sp |-> sp, kind |-> "throw", tok |-> NoToken, err |-> err]

\* ------------------------------------------------- quoted strings
isDigit(x) == x \in {"0", "1", "2", "3", "4", "5", "6", "7", "8", "9"}

isOctal(x) == x \in {"0", "1", "2", "3", "4", "5", "6", "7"}

isHexadecimal(x) ==
  isDigit(x) \/ x \in {"A", "B", "C", "D", "E", "F"} \/ x \in {"a", "b", "c", "d", "e", "f"}

\* the value of one digit of parseInt
DigitValue(x) ==
  CASE x = "0" -> 0 [] x = "1" -> 1 [] x = "2" -> 2 [] x = "3" -> 3 [] x = "4" -> 4
    [] x = "5" -> 5 [] x = "6" -> 6 [] x = "7" -> 7 [] x = "8" -> 8 [] x = "9" -> 9
    [] x \in {"A", "a"} -> 10 [] x \in {"B", "b"} -> 11 [] x \in {"C", "c"} -> 12
    [] x \in {"D", "d"} -> 13 [] x \in {"E", "e"} -> 14 [] x \in {"F", "f"} -> 15

RECURSIVE parseIntFrom(_, _, _)
parseIntFrom(n, radix, acc) ==
  IF n = <<>> THEN acc
  ELSE parseIntFrom(Tail(n), radix, acc * radix + DigitValue(Head(n)))

\* parseInt(n, radix) of a string of digits of that radix
parseInt(n, radix) == parseIntFrom(n, radix, 0)

\* String.fromCharCode: the characters of the modelled sources by their code,
\* every other character an atom of its own
fromCharCode(code) ==
  CASE code = 9 -> "\t" [] code = 10 -> "\n" [] code = 12 -> "\f" [] code = 13 -> "\r"
    [] code = 34 -> "\"" [] code = 39 -> "'" [] code = 48 -> "0" [] code = 49 -> "1"
    [] code = 52 -> "4" [] code = 63 -> "?" [] code = 65 -> "A" [] code = 66 -> "B"
    [] code = 92 -> "\\" [] code = 97 -> "a" [] code = 98 -> "b" [] code = 110 -> "n"
    [] OTHER -> "#" \o ToString(code)

\* what a piece of the string loop leaves: the cursor, the string read so
\* far, and the value thrown (NoErr when nothing was thrown)
Piece(sp, s, err) == [s |-> s, sp |-> sp, err |-> err]

RECURSIVE escapeDigits(_, _, _, _, _)
\* for (let i = 0; i < count;) { advance(); ... n += char ... }: the cases
\* o, x, u and w; sp is at the letter, and i is never raised
escapeDigits(sp, s, n, i, c) ==
  LET count == CASE c \in {"o", "O"} -> 3 [] c \in {"x", "X"} -> 2
                 [] c \in {"u", "U"} -> 4 [] OTHER -> 6
      radix == IF c \in {"o", "O"} THEN 8 ELSE 16
      valid(x) == IF c \in {"o", "O"} THEN isOctal(x) ELSE isHexadecimal(x)
      what == CASE c \in {"o", "O"} -> "octal" [] c \in {"x", "X"} -> "hexadecimal"
                [] c \in {"u", "U"} -> "Unicode-16" [] OTHER -> "Unicode-32"
      Digit(p) ==
        IF eof(p) THEN Piece(p, s, UnexpectedEOF)
        ELSE IF valid(Head(p.future))
        THEN escapeDigits(p, s, Append(n, Head(p.future)), i, c)
        ELSE Piece(p, s, ParseFailure(<<"invalid ", what, " escape character">>,
                                      p.line, p.column))
      \* the seventh digit of \w
      Seventh(a) ==
        IF a.thrown THEN Piece(a.sp, s, UnexpectedEOF)
        ELSE IF eof(a.sp)
        THEN Piece(a.sp, s, OtherError("RangeError", <<"lexer: getting char while EOF">>))
        ELSE Piece(a.sp,
                   Append(s, fromCharCode(parseInt(
                     IF isHexadecimal(Head(a.sp.future))
                     THEN Append(n, Head(a.sp.future)) ELSE n, 16))),
                   NoErr)
  IN IF i < count THEN With(Step(sp), Digit)
     ELSE IF c \in {"w", "W"} THEN With(advance(sp, 1), Seventh)
     ELSE Piece(sp, Append(s, fromCharCode(parseInt(n, radix))), NoErr)

RECURSIVE escapeDecimal(_, _, _, _)
\* for (let i = 1; i < 3; i++) { if (isDigit(char)) n += char; else break; advance() }
escapeDecimal(sp, s, n, i) ==
  IF i < 3 /\ eof(sp)
  THEN Piece(sp, s, OtherError("RangeError", <<"lexer: getting char while EOF">>))
  ELSE IF i < 3 /\ isDigit(Head(sp.future))
  THEN With(Step(sp), LAMBDA p : escapeDecimal(p, s, Append(n, Head(sp.future)), i + 1))
  ELSE Piece(sp, Append(s, fromCharCode(parseInt(n, 10))), NoErr)

\* switch (this.sp.char) of an escape; sp is at the character after the
\* backslash. The one-letter cases add their character and leave the cursor
\* at the letter.
escape(sp, s) ==
  LET c == Head(sp.future)
      One(x) == Piece(sp, Append(s, x), NoErr)
  IN CASE c = "a" -> One(fromCharCode(7)) [] c = "b" -> One(fromCharCode(8))
       [] c = "f" -> One(fromCharCode(12)) [] c = "n" -> One(fromCharCode(10))
       [] c = "r" -> One(fromCharCode(13)) [] c = "t" -> One(fromCharCode(9))
       [] c = "v" -> One(fromCharCode(11)) [] c = "\\" -> One("\\")
       [] c = "'" -> One("'") [] c = "\"" -> One("\"") [] c = "?" -> One("?")
       [] c \in {"o", "O", "x", "X", "u", "U", "w", "W"} -> escapeDigits(sp, s, <<>>, 0, c)
       [] isDigit(c) -> escapeDecimal(sp, s, <<>>, 1)
       [] OTHER -> Piece(sp, s, ParseFailure(<<"invalid escape character">>,
                                             sp.line, sp.column))

RECURSIVE quotedLoop(_, _, _)
\* while (!eof && !rest.startsWith(stop)) { escape; line break check;
\* s += char; advance() }, then advance(stop.length)
quotedLoop(quotation, sp, s) ==
  LET Escaped ==
        IF quotation.escape /\ Head(sp.future) = "\\"
        THEN With(Step(sp), LAMBDA p :
               IF eof(p) THEN Piece(p, s, UnexpectedEOF) ELSE escape(p, s))
        ELSE Piece(sp, s, NoErr)
      Char(e) ==
        IF e.err.kind # "none" THEN e
        ELSE IF eof(e.sp)
        THEN Piece(e.sp, e.s, OtherError("RangeError", <<"lexer: getting char while EOF">>))
        ELSE IF Head(e.sp.future) = "\n" /\ ~quotation.multiline
        THEN Piece(e.sp, e.s, ParseFailure(<<"line break not allowed in this place">>,
                                           e.sp.line, e.sp.column))
        ELSE With(Step(e.sp), LAMBDA p :
               quotedLoop(quotation, p, Append(e.s, Head(e.sp.future))))
      Stop(a) == Piece(a.sp, s, IF a.thrown THEN UnexpectedEOF ELSE NoErr)
  IN IF ~eof(sp) /\ ~StartsWith(sp.future, quotation.stop)
     THEN With(Escaped, Char)
     ELSE With(advance(sp, Len(quotation.stop)), Stop)

\* the index of the first quote the rest of the source starts with, 0 if none
FirstQuote(quotes, s) ==
  LET hits == {i \in 1..Len(quotes) : StartsWith(s, quotes[i].quote)}
  IN IF hits = {} THEN 0 ELSE CHOOSE i \in hits : \A j \in hits : i <= j

\* the body of `if (this.sp.rest.startsWith(quote))`
quoted(quotation, sp) ==
  LET Done(r) ==
        IF r.err.kind # "none" THEN LexThrow(r.err, r.sp)
        ELSE LexToken(Token(quotation.tokenType, r.s, sp.line, sp.column), r.sp)
  IN With(quotedLoop(quotation, advance(sp, Len(quotation.quote)).sp, <<>>), Done)

\* the index of the first static key that is a prefix of s, 0 if none
FirstStaticPrefix(guard, s) ==
  LET hits == {i \in 1..Len(guard) : StartsWith(s, guard[i].key)}
  IN IF hits = {} THEN 0 ELSE CHOOSE i \in hits : \A j \in hits : i <= j

\* the index of the static key equal to word, 0 if none (Map.get)
StaticGet(guard, word) ==
  LET hits == {i \in 1..Len(guard) : guard[i].key = word}
  IN IF hits = {} THEN 0 ELSE CHOOSE i \in hits : TRUE

\* the index of the first dynamic rule whose pattern matches s, 0 if none
FirstDynamic(guards, s) ==
  LET hits == {i \in 1..Len(guards) : Match(guards[i].pat, s, 0) # <<>>}
  IN IF hits = {} THEN 0 ELSE CHOOSE i \in hits : \A j \in hits : i <= j

\* the lambda of next(): static fast path, static scan, dynamic rules, then
\* `invalid token`
resultToken(rs, sp) ==
  LET word == FirstWord(sp.future)
      g == StaticGet(rs.staticGuard, word)
      k == FirstStaticPrefix(rs.staticGuard, sp.future)
  IN IF g # 0
     THEN LexToken(Token(rs.staticGuard[g].tk, word, sp.line, sp.column),
                   advance(sp, Len(word)).sp)
     ELSE IF k # 0
     THEN LexToken(Token(rs.staticGuard[k].tk, rs.staticGuard[k].key, sp.line, sp.column),
                   advance(sp, Len(rs.staticGuard[k].key)).sp)
     ELSE IF FirstDynamic(rs.dynamicGuard, sp.future) # 0
     THEN With(rs.dynamicGuard[FirstDynamic(rs.dynamicGuard, sp.future)], LAMBDA guard :
            With(match(sp.future, guard.pat), LAMBDA literal :
              LexToken(Token(guard.tk, literal, sp.line, sp.column),
                       advance(sp, Len(literal)).sp)))
     ELSE LexThrow(ParseFailure(<<"invalid token">>, sp.line, sp.column), sp)

next(rs, sp0) ==
  LET Checked(r) ==
        IF r.kind = "token" /\ r.tok.type = TK_NUMBER_NOFOLLOW
        THEN LexThrow(ParseFailure(<<"unexpected '", "literal",
                                     "': missing separators between a number and indistinguishable stuff">>,
                                   r.tok.line, r.tok.column), r.sp)
        ELSE r
      Read(sp) ==
        IF eof(sp) THEN LexEOF(sp)
        ELSE IF FirstQuote(rs.quotes, sp.future) # 0
        THEN quoted(rs.quotes[FirstQuote(rs.quotes, sp.future)], sp)
        ELSE With(resultToken(rs, sp), Checked)
  IN With(IF rs.skipSpaces THEN skipWhites(rs, sp0) ELSE sp0, Read)

\* ---------------------------------------------------------------- values
\* results of parsers: a token, an array of results, or a constant
NoVal == [n |-> 0, c |-> "", tok |-> NoToken, tag |-> "none", items |-> <<>>]

TokVal(tok) == [n |-> 0, c |-> "", tok |-> tok, tag |-> "token", items |-> <<>>]

ListVal(items) == [n |-> 0, c |-> "", tok |-> NoToken, tag |-> "list", items |-> items]

ConstVal(c) == [n |-> 0, c |-> c, tok |-> NoToken, tag |-> "const", items |-> <<>>]

\* a number
NumVal(n) == [n |-> n, c |-> "", tok |-> NoToken, tag |-> "number", items |-> <<>>]

\* --------------------------------------------------------------- parsers
\* A callback `result => Parser` given to bind: kind names the function, ps
\* the parsers and ks the callbacks it is built from.
NoK == [kind |-> "none", ps |-> <<>>, ks |-> <<>>]

\* v is the value of a trivial parser that was made by a callback
Node(op, arg, ps) == [v |-> NoVal, k |-> NoK, ps |-> ps, op |-> op, arg |-> arg]

trivialP(value) == Node("trivial", value, <<>>)

\* trivial(x) for a result x
trivialOf(x) == [v |-> x, k |-> NoK, ps |-> <<>>, op |-> "trivial", arg |-> ""]

\* x => trivial(x)
trivialK == [kind |-> "trivial", ps |-> <<>>, ks |-> <<>>]

\* _ => q
constK(q) == [kind |-> "const", ps |-> <<q>>, ks |-> <<>>]

\* x => x.type === 'a' ? q1 : q2
byTypeK(q1, q2) == [kind |-> "byType", ps |-> <<q1, q2>>, ks |-> <<>>]

\* x => f(x).bind(g)
bindK(f, g) == [kind |-> "bind", ps |-> <<>>, ks |-> <<f, g>>]

\* a => pb.bind(b => trivial([a, b]))
seqK(pb) == [kind |-> "seq", ps |-> <<pb>>, ks |-> <<>>]

\* b => trivial([a, b]), a carried as the value of a trivial parser
collectK(a) == [kind |-> "collect", ps |-> <<trivialOf(a)>>, ks |-> <<>>]

\* combineMany(results => results, ...parsers), combine2((a, b) => [a, b], pa, pb)
combineP(parsers) == Node("combine", "", parsers)

bindP(p, nxt) == [v |-> NoVal, k |-> nxt, ps |-> <<p>>, op |-> "bind", arg |-> ""]

anyTokenP == Node("anyToken", "", <<>>)

notFollowedByP(p, following) == Node("notFollowedBy", "", <<p, following>>)

\* p.eof()
eofP(p) == Node("expect", "end of file", <<notFollowedByP(p, anyTokenP)>>)

tokenP(tokenType) == Node("token", tokenType, <<>>)

\* tk => trivial(parseInt(tk.literal))
parseIntK == [kind |-> "parseInt", ps |-> <<>>, ks |-> <<>>]

\* chainLeftMore(expr, operator), chainRightMore(expr, operator)
chainLeftMoreP(expr, operator) == Node("chainLeftMore", "", <<expr, operator>>)

chainRightMoreP(expr, operator) == Node("chainRightMore", "", <<expr, operator>>)

thenP(p, q) == Node("then", "", <<p, q>>)

expectP(p, message) == Node("expect", message, <<p>>)

manyP(one) == Node("many", "", <<one>>)

parallelP(p, q) == Node("parallel", "", <<p, q>>)

ifElseP(p, q) == Node("ifElse", "", <<p, q>>)

choicesP(ps) == Node("choices", "", ps)

\* string(literal), for a literal of one character
stringP(literal) == Node("string", literal, <<>>)

\* p.end(value)
endP(p, value) == [v |-> value, k |-> NoK, ps |-> <<p>>, op |-> "end", arg |-> ""]

\* identity(parser) = trivial(undefined).then(parser)
identityP(parser) == thenP(trivialP("undefined"), parser)

\* xs => { xs.unshift(x); return trivial(xs) }, x carried as the value of a
\* trivial parser
unshiftK(x) == [kind |-> "unshift", ps |-> <<trivialOf(x)>>, ks |-> <<>>]

\* x => many(attempt(identity(separator).then(one))).bind(xs => ...)
moreTailK(one, separator) == [kind |-> "moreTail", ps |-> <<one, separator>>, ks |-> <<>>]

\* x => many(identity(separator).then(one)).bind(xs => ...)
moreK(one, separator) == [kind |-> "more", ps |-> <<one, separator>>, ks |-> <<>>]

\* xs => optional(separator).end(xs)
optionalEndK(separator) == [kind |-> "optionalEnd", ps |-> <<separator>>, ks |-> <<>>]

\* optional(what) = ifElse(what, trivial(undefined))
optionalP(what) == ifElseP(what, trivialP("undefined"))

\* a list that gives up its last separator where no item follows it
moreSeparatedP_attempt(one, separator) == bindP(identityP(one), moreTailK(one, separator))

\* identity(one).bind(x => many(identity(separator).then(one)).bind(xs => ...))
moreSeparatedP(one, separator) == bindP(identityP(one), moreK(one, separator))

\* ifElse(moreSeparated(one, separator), trivial([]))
manySeparatedP(one, separator) ==
  ifElseP(moreSeparatedP(one, separator), trivialOf(ListVal(<<>>)))

moreSeparatedOptionalEndP(one, separator) ==
  bindP(bindP(identityP(one), moreTailK(one, separator)), optionalEndK(separator))

\* ifElse(moreSeparatedOptionalEnd(one, separator), trivial([]))
manySeparatedOptionalEndP(one, separator) ==
  ifElseP(moreSeparatedOptionalEndP(one, separator), trivialOf(ListVal(<<>>)))

testP(what) == Node("test", "", <<what>>)

attemptP(what) == Node("attempt", "", <<what>>)

\* -------------------------------------------------------------- outcomes
\* How the promise of parse(lexer) settles: "ok" (resolved with val), "fail"
\* (rejected with a ParseFailure), "error" (rejected with anything else) or
\* "running" or "pending" (never settled: a loop that goes on for ever, a
\* promise nobody resolves or rejects).  sp is the cursor of the caller's lexer
\* afterwards; log lists the argument parsers that were run, in order.
Ok(val, sp, log) == [sp |-> sp, err |-> NoErr, val |-> val, log |-> log, status |-> "ok"]

Throw(err, sp, log) ==
  [sp |-> sp,
   err |-> err, val |-> NoVal, log |-> log, status |-> IF IsParseFailure(err) THEN "fail" ELSE "error"]

Running(sp, log) == [sp |-> sp, err |-> NoErr, val |-> NoVal, log |-> log, status |-> "running"]

Pending(sp, log) == [sp |-> sp, err |-> NoErr, val |-> NoVal, log |-> log, status |-> "pending"]

\* a child that threw or never settled, seen from the parent that awaits it
\* without a handler for it
Propagate(r, sp, log) == [sp |-> sp, err |-> r.err, val |-> NoVal, log |-> log, status |-> r.status]

\* one entry of the log: argument parser `role` was run from `entry` on the
\* lexer it was given and left that lexer at `exit`
Ran(role, parser, entry, r) ==
  [err |-> r.err, parser |-> parser, val |-> r.val, status |-> r.status,
   role |-> role, entry |-> entry, exit |-> r.sp]

\* Lexer.clone / a lexer whose cursor is sp
Lexer_clone(lexer) == [sp |-> clone(lexer.sp), ruleSet |-> lexer.ruleSet]

\* ------------------------------------------------------------ MAX_REPEAT
MAX_REPEAT == "Infinity"

\* i < MAX_REPEAT
BelowMaxRepeat(i) == IF MAX_REPEAT = "Infinity" THEN TRUE ELSE i < MAX_REPEAT

\* ----------------------------------------------------------- combinators
RECURSIVE Parse(_, _)
RECURSIVE manyLoop(_, _, _, _, _)
RECURSIVE choicesLoop(_, _, _, _, _)

\* a trivial that skips the blanks before it gives its value
trivial_skipsBlanks(value, lexer) == Ok(value, skipWhites(lexer.ruleSet, lexer.sp), <<>>)

trivial(value, lexer) == Ok(value, lexer.sp, <<>>)

\* anyToken().parse(lexer)
anyToken(lexer) ==
  LET earlySp == clone(lexer.sp)
      Read(r) ==
        IF r.kind = "EOF"
        THEN Throw(ParseFailure(<<"unexpected end of file, expected a token">>,
                                earlySp.line, earlySp.column), assign(earlySp), <<>>)
        ELSE IF r.kind = "throw"
        THEN Throw(r.err, r.sp, <<>>)
        ELSE Ok(TokVal(r.tok), r.sp, <<>>)
  IN With(next(lexer.ruleSet, lexer.sp), Read)

\* token(tokenType).parse(lexer); nextExceptEOF runs the onEOF hook on EOF and
\* rethrows everything else that next() throws
token(tokenType, lexer) ==
  LET earlySp == clone(lexer.sp)
      Read(r) ==
        IF r.kind = "EOF"
        THEN Throw(ParseFailure(<<"unexpected end of file, expected ", tokenType>>,
                                earlySp.line, earlySp.column), assign(earlySp), <<>>)
        ELSE IF r.kind = "throw"
        THEN Throw(r.err, r.sp, <<>>)
        ELSE IF r.tok.type = tokenType
        THEN Ok(TokVal(r.tok), r.sp, <<>>)
        ELSE Throw(ParseFailure(<<"expected ", tokenType, ", got ", r.tok.type>>,
                                r.tok.line, r.tok.column), assign(earlySp), <<>>)
  IN With(next(lexer.ruleSet, lexer.sp), Read)

\* string(literal).parse(lexer): the rest of the source is tested as it is
string(literal, lexer) ==
  IF StartsWith(lexer.sp.future, <<literal>>)
  THEN Ok(ConstVal(literal), advance(lexer.sp, 1).sp, <<>>)
  ELSE Throw(ParseFailure(<<"expected '", literal, "', got '", literal, "'">>,
                          lexer.sp.line, lexer.sp.column), lexer.sp, <<>>)

\* this.end(value)
end(this, value, lexer) ==
  LET Ended(a) ==
        IF a.status = "ok" THEN Ok(value, a.sp, <<Ran("this", this, lexer.sp, a)>>)
        ELSE Propagate(a, a.sp, <<Ran("this", this, lexer.sp, a)>>)
  IN With(Parse(this, lexer), Ended)

\* this.then(next)
then(this, nxt, lexer) ==
  LET Second(a, b) ==
        [b EXCEPT !.log = <<Ran("this", this, lexer.sp, a), Ran("next", nxt, a.sp, b)>>]
      First(a) ==
        IF a.status # "ok" THEN Propagate(a, a.sp, <<Ran("this", this, lexer.sp, a)>>)
        ELSE With(Parse(nxt, [lexer EXCEPT !.sp = a.sp]), LAMBDA b : Second(a, b))
  IN With(Parse(this, lexer), First)

\* this.expect(message)
expect(this, message, lexer) ==
  LET Caught(r) ==
        IF r.status = "fail"
        THEN Throw([r.err EXCEPT !.msg = <<"expected ", message>>], r.sp,
                   <<Ran("this", this, lexer.sp, r)>>)
        ELSE [r EXCEPT !.log = <<Ran("this", this, lexer.sp, r)>>]
  IN With(Parse(this, lexer), Caught)

RECURSIVE DigitsOf(_, _)
\* the digits of radix that s starts with
DigitsOf(s, radix) ==
  IF s # <<>> /\ (IF radix = 16 THEN isHexadecimal(Head(s)) ELSE isDigit(Head(s)))
  THEN <<Head(s)>> \o DigitsOf(Tail(s), radix)
  ELSE <<>>

\* parseInt(literal) of a literal that starts with a digit or with a sign and
\* a digit: the sign, 0x for radix 16, and the digits up to the first
\* character that is none
parseIntOf(literal) ==
  LET signed == literal # <<>> /\ Head(literal) \in {"+", "-"}
      body == IF signed THEN Tail(literal) ELSE literal
      hex == Len(body) >= 2 /\ body[1] = "0" /\ body[2] \in {"x", "X"}
      n == IF hex THEN parseInt(DigitsOf(Drop(body, 2), 16), 16)
           ELSE parseInt(DigitsOf(body, 10), 10)
  IN IF signed /\ Head(literal) = "-" THEN 0 - n ELSE n

RECURSIVE Apply(_, _)
\* next(result): the parser the callback makes of a result
Apply(k, x) ==
  CASE k.kind = "trivial" -> trivialOf(x)
    [] k.kind = "const" -> k.ps[1]
    [] k.kind = "byType" -> IF x.tag = "token" /\ x.tok.type = "a" THEN k.ps[1] ELSE k.ps[2]
    [] k.kind = "bind" -> bindP(Apply(k.ks[1], x), k.ks[2])
    [] k.kind = "seq" -> bindP(k.ps[1], collectK(x))
    [] k.kind = "collect" -> trivialOf(ListVal(<<k.ps[1].v, x>>))
    [] k.kind = "parseInt" -> trivialOf(NumVal(parseIntOf(x.tok.literal)))
    [] k.kind = "unshift" -> trivialOf(ListVal(<<k.ps[1].v>> \o x.items))
    [] k.kind = "moreTail" ->
         bindP(manyP(attemptP(thenP(identityP(k.ps[2]), k.ps[1]))), unshiftK(x))
    [] k.kind = "more" ->
         bindP(manyP(thenP(identityP(k.ps[2]), k.ps[1])), unshiftK(x))
    [] k.kind = "optionalEnd" -> endP(optionalP(k.ps[1]), x)

\* a bind that takes back what the next parser consumed when it fails
bind_undoNext(this, nxt, lexer) ==
  LET Second(a, b) ==
        [b EXCEPT !.sp = IF b.status = "ok" THEN b.sp ELSE a.sp,
                  !.log = <<Ran("this", this, lexer.sp, a),
                            Ran("next", Apply(nxt, a.val), a.sp, b)>>]
      First(a) ==
        IF a.status # "ok" THEN Propagate(a, a.sp, <<Ran("this", this, lexer.sp, a)>>)
        ELSE With(Parse(Apply(nxt, a.val), [lexer EXCEPT !.sp = a.sp]),
                  LAMBDA b : Second(a, b))
  IN With(Parse(this, lexer), First)

\* this.bind(next)
bind(this, nxt, lexer) ==
  LET Second(a, b) ==
        [b EXCEPT !.log = <<Ran("this", this, lexer.sp, a),
                            Ran("next", Apply(nxt, a.val), a.sp, b)>>]
      First(a) ==
        IF a.status # "ok" THEN Propagate(a, a.sp, <<Ran("this", this, lexer.sp, a)>>)
        ELSE With(Parse(Apply(nxt, a.val), [lexer EXCEPT !.sp = a.sp]),
                  LAMBDA b : Second(a, b))
  IN With(Parse(this, lexer), First)

\* a pass of many that takes every failure of `one` as the end of the list
manyStep_anyFailureStops(one, lexer, sp, result, log) ==
  LET Pass(r) ==
        LET lg == Append(log, Ran("one", one, sp, r))
        IN IF r.status = "ok"
           THEN [result |-> Append(result, r.val), more |-> TRUE, out |-> Ok(NoVal, r.sp, lg)]
           ELSE IF r.status = "fail"
           THEN [result |-> result, more |-> FALSE, out |-> Ok(ListVal(result), r.sp, lg)]
           ELSE [result |-> result, more |-> FALSE, out |-> Propagate(r, r.sp, lg)]
  IN With(Parse(one, [lexer EXCEPT !.sp = sp]), Pass)

\* one pass of the loop of many; the loop goes on when `more`
manyStep(one, lexer, sp, result, log) ==
  LET earlySp == clone(sp)
      Pass(r) ==
        LET lg == Append(log, Ran("one", one, sp, r))
        IN IF r.status = "ok"
           THEN [result |-> Append(result, r.val), more |-> TRUE, out |-> Ok(NoVal, r.sp, lg)]
           ELSE IF r.status = "fail"
           THEN IF compareTo(r.sp, earlySp) # "equal"
                THEN [result |-> result, more |-> FALSE, out |-> Throw(r.err, r.sp, lg)]
                ELSE [result |-> result, more |-> FALSE, out |-> Ok(ListVal(result), r.sp, lg)]
           ELSE [result |-> result, more |-> FALSE, out |-> Propagate(r, r.sp, lg)]
  IN With(Parse(one, [lexer EXCEPT !.sp = sp]), Pass)

\* the loop of many after Len(log) passes; MaxIter passes are followed
manyLoop(one, lexer, sp, result, log) ==
  LET i == Len(log)
      Passed(s) == IF s.more THEN manyLoop(one, lexer, s.out.sp, s.result, s.out.log)
                   ELSE s.out
  IN IF ~BelowMaxRepeat(i) THEN Ok(ListVal(result), sp, log)
     ELSE IF i >= MaxIter THEN Running(sp, log)
     ELSE With(manyStep(one, lexer, sp, result, log), Passed)

many(one, lexer) == manyLoop(one, lexer, lexer.sp, <<>>, <<>>)

\* a parallel that takes the branch that went further when both succeed
parallel_longerWins(ifParser, elseParser, lexer) ==
  LET Resolve(a, b) ==
        LET lg == <<Ran("if", ifParser, lexer.sp, a), Ran("else", elseParser, lexer.sp, b)>>
        IN IF a.status = "error" THEN Propagate(a, lexer.sp, lg)
           ELSE IF b.status = "error" THEN Propagate(b, lexer.sp, lg)
           ELSE IF a.status = "running" \/ b.status = "running" THEN Running(lexer.sp, lg)
           ELSE IF a.status = "fail" /\ b.status = "fail"
           THEN Throw(combine(a.err, b.err), lexer.sp, lg)
           ELSE IF a.status = "fail" THEN Ok(b.val, assign(b.sp), lg)
           ELSE IF b.status = "fail" THEN Ok(a.val, assign(a.sp), lg)
           ELSE IF compareTo(a.sp, b.sp) = "forward" THEN Ok(a.val, assign(a.sp), lg)
           ELSE IF compareTo(a.sp, b.sp) = "behind" THEN Ok(b.val, assign(b.sp), lg)
           ELSE Throw(OtherError("Error", <<"syntax ambiguity found in parallel parser">>),
                      assign(a.sp), lg)
  IN With(Parse(ifParser, Lexer_clone(lexer)),
          LAMBDA a : With(Parse(elseParser, Lexer_clone(lexer)), LAMBDA b : Resolve(a, b)))

\* Promise.all of the two branch promises: a branch promise is rejected only
\* by a thrown value that is not a ParseFailure
parallel(ifParser, elseParser, lexer) ==
  LET ifLexer == Lexer_clone(lexer)
      elseLexer == Lexer_clone(lexer)
      Resolve(a, b) ==
        LET lg == <<Ran("if", ifParser, ifLexer.sp, a), Ran("else", elseParser, elseLexer.sp, b)>>
        IN IF a.status = "error" THEN Propagate(a, lexer.sp, lg)
           ELSE IF b.status = "error" THEN Propagate(b, lexer.sp, lg)
           ELSE IF a.status = "running" \/ b.status = "running" THEN Running(lexer.sp, lg)
           ELSE IF a.status = "fail" /\ b.status = "fail"
           THEN Throw(combine(a.err, b.err), lexer.sp, lg)
           ELSE IF a.status = "fail"
           THEN Ok(b.val, assign(b.sp), lg)
           ELSE IF b.status = "fail"
           THEN Ok(a.val, assign(a.sp), lg)
           ELSE Throw(OtherError("Error", <<"syntax ambiguity found in parallel parser">>),
                      IF compareTo(a.sp, b.sp) = "forward" THEN assign(b.sp) ELSE assign(a.sp),
                      lg)
  IN With(Parse(ifParser, ifLexer),
          LAMBDA a : With(Parse(elseParser, elseLexer), LAMBDA b : Resolve(a, b)))

\* an ifElse that runs the else branch after every failure of the if branch
ifElse_alwaysBacktracks(ifParser, elseParser, lexer) ==
  LET elseLexer == Lexer_clone(lexer)
      Else(a, b) ==
        LET lb == <<Ran("if", ifParser, lexer.sp, a), Ran("else", elseParser, elseLexer.sp, b)>>
        IN IF b.status = "ok" THEN Ok(b.val, assign(b.sp), lb)
           ELSE IF b.status = "running" THEN Running(a.sp, lb)
           ELSE IF b.status = "fail" THEN Throw(combine(b.err, a.err), a.sp, lb)
           ELSE Throw(b.err, a.sp, lb)
      If(a) ==
        LET la == <<Ran("if", ifParser, lexer.sp, a)>>
        IN IF a.status = "ok" THEN Ok(a.val, a.sp, la)
           ELSE IF a.status = "fail"
           THEN With(Parse(elseParser, elseLexer), LAMBDA b : Else(a, b))
           ELSE Propagate(a, a.sp, la)
  IN With(Parse(ifParser, lexer), If)

\* an ifElse whose catch takes every thrown value for a failure of the branch
ifElse_catchesAll(ifParser, elseParser, lexer) ==
  LET earlyLexer == Lexer_clone(lexer)
      elseLexer == Lexer_clone(earlyLexer)
      Else(a, b) ==
        LET lb == <<Ran("if", ifParser, lexer.sp, a), Ran("else", elseParser, elseLexer.sp, b)>>
        IN IF b.status = "ok" THEN Ok(b.val, assign(b.sp), lb)
           ELSE IF b.status = "running" THEN Running(a.sp, lb)
           ELSE IF compareTo(b.sp, earlyLexer.sp) # "equal"
           THEN Throw(b.err, a.sp, lb)
           ELSE IF b.status = "fail"
           THEN Throw(combine(b.err, a.err), a.sp, lb)
           ELSE Throw(b.err, a.sp, lb)
      If(a) ==
        LET la == <<Ran("if", ifParser, lexer.sp, a)>>
        IN IF a.status = "ok" THEN Ok(a.val, a.sp, la)
           ELSE IF a.status \in {"fail", "error"}
           THEN IF compareTo(a.sp, earlyLexer.sp) # "equal"
                THEN Throw(a.err, a.sp, la)
                ELSE With(Parse(elseParser, elseLexer), LAMBDA b : Else(a, b))
           ELSE Propagate(a, a.sp, la)
  IN With(Parse(ifParser, lexer), If)

ifElse(ifParser, elseParser, lexer) ==
  LET earlyLexer == Lexer_clone(lexer)
      elseLexer == Lexer_clone(earlyLexer)
      Else(a, b) ==
        LET lb == <<Ran("if", ifParser, lexer.sp, a), Ran("else", elseParser, elseLexer.sp, b)>>
        IN IF b.status = "ok" THEN Ok(b.val, assign(b.sp), lb)
           ELSE IF b.status = "running" THEN Running(a.sp, lb)
           ELSE IF compareTo(b.sp, earlyLexer.sp) # "equal"
           THEN Throw(b.err, a.sp, lb)
           ELSE IF b.status = "fail"
           THEN Throw(combine(b.err, a.err), a.sp, lb)
           ELSE Throw(b.err, a.sp, lb)
      If(a) ==
        LET la == <<Ran("if", ifParser, lexer.sp, a)>>
        IN IF a.status = "ok" THEN Ok(a.val, a.sp, la)
           ELSE IF a.status = "fail"
           THEN IF compareTo(a.sp, earlyLexer.sp) # "equal"
                THEN Throw(a.err, a.sp, la)
                ELSE With(Parse(elseParser, elseLexer), LAMBDA b : Else(a, b))
           ELSE Propagate(a, a.sp, la)
  IN With(Parse(ifParser, lexer), If)

RECURSIVE mostScan(_, _, _)
\* the loop of mostConsumedErrors from index i on
mostScan(errs, i, most) ==
  IF i > Len(errs) THEN most
  ELSE IF compareTo(errs[i].sp, most[1].sp) = "forward"
  THEN mostScan(errs, i + 1, <<errs[i]>>)
  ELSE IF compareTo(errs[i].sp, most[1].sp) = "equal"
  THEN mostScan(errs, i + 1, Append(most, errs[i]))
  ELSE mostScan(errs, i + 1, most)

\* every failure, wherever its branch stopped
mostConsumedErrors_all(errs) == errs

mostConsumedErrors(errs) ==
  IF Len(errs) = 0 THEN <<>> ELSE mostScan(errs, 2, <<errs[1]>>)

RECURSIVE combineFrom(_, _, _)
\* e = errs[0].err; for (j = 1 ..) e = e.combine(errs[j].err)
combineFrom(errs, j, e) ==
  IF j > Len(errs) THEN e ELSE combineFrom(errs, j + 1, combine(e, errs[j].err))

\* a choices whose branches share the caller's cursor
choicesLoop_sharedCursor(parsers, i, lexer, errs, log) ==
  LET Last(most, lg) ==
        IF Len(most) = 1 THEN Throw(most[1].err, lexer.sp, lg)
        ELSE Throw(combineFrom(most, 2, most[1].err), lexer.sp, lg)
      Tried(r) ==
        LET lg == Append(log, Ran("choice", parsers[i], lexer.sp, r))
            errs1 == Append(errs, [sp |-> clone(r.sp), err |-> r.err])
        IN IF r.status = "ok" THEN Ok(r.val, r.sp, lg)
           ELSE IF r.status = "fail" /\ i + 1 <= Len(parsers)
           THEN With(errs1, LAMBDA es : With(lg, LAMBDA l :
                  choicesLoop(parsers, i + 1, [lexer EXCEPT !.sp = r.sp], es, l)))
           ELSE IF r.status = "fail"
           THEN With(mostConsumedErrors(errs1), LAMBDA most : Last(most, lg))
           ELSE Propagate(r, lexer.sp, lg)
  IN IF i > Len(parsers) THEN Ok(ConstVal("undefined"), lexer.sp, log)
     ELSE With(Parse(parsers[i], lexer), Tried)

\* the loop of choices at branch i (1-based), errs collected so far
choicesLoop(parsers, i, lexer, errs, log) ==
  LET newLexer == Lexer_clone(lexer)
      Last(most, lg) ==
        IF Len(most) = 1 THEN Throw(most[1].err, lexer.sp, lg)
        ELSE Throw(combineFrom(most, 2, most[1].err), lexer.sp, lg)
      Tried(r) ==
        LET lg == Append(log, Ran("choice", parsers[i], newLexer.sp, r))
            errs1 == Append(errs, [sp |-> clone(r.sp), err |-> r.err])
        IN IF r.status = "ok" THEN Ok(r.val, assign(r.sp), lg)
           ELSE IF r.status = "fail" /\ i + 1 <= Len(parsers)
           THEN With(errs1, LAMBDA es : With(lg, LAMBDA l : choicesLoop(parsers, i + 1, lexer, es, l)))
           ELSE IF r.status = "fail"
           THEN With(mostConsumedErrors(errs1), LAMBDA most : Last(most, lg))
           ELSE Propagate(r, lexer.sp, lg)
  IN IF i > Len(parsers) THEN Ok(ConstVal("undefined"), lexer.sp, log)
     ELSE With(Parse(parsers[i], newLexer), Tried)

choices(parsers, lexer) == choicesLoop(parsers, 1, lexer, <<>>, <<>>)

test(what, lexer) ==
  LET Tested(r) == [r EXCEPT !.sp = lexer.sp, !.log = <<Ran("what", what, lexer.sp, r)>>]
  IN With(Parse(what, Lexer_clone(lexer)), Tested)

\* ---- combine2 .. combineMany: every argument's parse(lexer) is called
\* on the one lexer before any promise is awaited.  A call of an async
\* function runs up to its first `await`: a token or trivial parser runs whole,
\* p.then(q) and p.bind(f) run p and leave q to a microtask.  The microtasks
\* run after the last call, in the order they were queued.  The arguments
\* modelled are tokens, trivial parsers and then/bind of those.

\* the part of a parser that runs at the call
Sync(p) == IF p.op \in {"then", "bind"} THEN p.ps[1] ELSE p

HasRest(p) == p.op \in {"then", "bind"}

\* the part that runs in the microtask, given the result of the first part
Rest(p, x) == IF p.op = "then" THEN p.ps[2] ELSE Apply(p.k, x)

RECURSIVE combineCalls(_, _, _, _)
\* parsers.map(parser => parser.parse(lexer)) from parser i on: st.sp is the
\* cursor, st.runs[j] what argument j has done so far
combineCalls(parsers, i, lexer, st) ==
  IF i > Len(parsers) THEN st
  ELSE With(Parse(Sync(parsers[i]), [lexer EXCEPT !.sp = st.sp]),
            LAMBDA r : combineCalls(parsers, i + 1, lexer,
                         [sp |-> r.sp,
                          runs |-> Append(st.runs, Ran("arg", parsers[i], st.sp, r))]))

RECURSIVE combineTasks(_, _, _, _)
\* the microtasks of the arguments from argument i on
combineTasks(parsers, i, lexer, st) ==
  IF i > Len(parsers) THEN st
  ELSE IF HasRest(parsers[i]) /\ st.runs[i].status = "ok"
  THEN With(Parse(Rest(parsers[i], st.runs[i].val), [lexer EXCEPT !.sp = st.sp]),
            LAMBDA r : combineTasks(parsers, i + 1, lexer,
                         [sp |-> r.sp,
                          runs |-> [st.runs EXCEPT ![i] =
                                      Ran("arg", parsers[i], st.runs[i].entry, r)]]))
  ELSE combineTasks(parsers, i + 1, lexer, st)

\* new Promise(resolve => Promise.all(promises).then(results => resolve(...))):
\* nothing rejects the new promise
combineMany(parsers, lexer) ==
  LET Settle(st) ==
        IF \A i \in 1..Len(parsers) : st.runs[i].status = "ok"
        THEN Ok(ListVal([i \in 1..Len(parsers) |-> st.runs[i].val]), st.sp, st.runs)
        ELSE Pending(st.sp, st.runs)
      Tasks(st) == With(combineTasks(parsers, 1, lexer, st), Settle)
  IN IF Len(parsers) = 0 THEN Ok(ListVal(<<>>), lexer.sp, <<>>)
     ELSE With(combineCalls(parsers, 1, lexer, [sp |-> lexer.sp, runs |-> <<>>]), Tasks)

\* a notFollowedBy that looks ahead on the caller's cursor
notFollowedBy_consumes(this, following, lexer) ==
  LET Looked(a, t) ==
        LET lg == <<Ran("this", this, lexer.sp, a), Ran("following", following, a.sp, t)>>
        IN IF t.status = "ok"
           THEN Throw(ParseFailure(<<"expected to not followed by">>, t.sp.line, t.sp.column),
                      t.sp, lg)
           ELSE IF t.status = "fail" THEN Ok(a.val, t.sp, lg)
           ELSE Propagate(t, t.sp, lg)
      First(a) ==
        IF a.status # "ok" THEN Propagate(a, a.sp, <<Ran("this", this, lexer.sp, a)>>)
        ELSE With(Parse(following, [lexer EXCEPT !.sp = a.sp]), LAMBDA t : Looked(a, t))
  IN With(Parse(this, lexer), First)

\* this.notFollowedBy(following); the look-ahead is test(following), whose
\* run on its clone is the second entry of the log
notFollowedBy(this, following, lexer) ==
  LET Looked(a, t) ==
        LET lg == <<Ran("this", this, lexer.sp, a), [t.log[1] EXCEPT !.role = "following"]>>
        IN IF t.status = "ok"
           THEN Throw(ParseFailure(<<"expected to not followed by">>, a.sp.line, a.sp.column),
                      a.sp, lg)
           ELSE IF t.status = "fail" THEN Ok(a.val, a.sp, lg)
           ELSE Propagate(t, a.sp, lg)
      First(a) ==
        IF a.status # "ok" THEN Propagate(a, a.sp, <<Ran("this", this, lexer.sp, a)>>)
        ELSE With(test(following, [lexer EXCEPT !.sp = a.sp]), LAMBDA t : Looked(a, t))
  IN With(Parse(this, lexer), First)

\* an attempt that runs `what` on the caller's cursor
attempt_noRestore(what, lexer) ==
  With(Parse(what, lexer), LAMBDA r : [r EXCEPT !.log = <<Ran("what", what, lexer.sp, r)>>])

attempt(what, lexer) ==
  LET newLexer == Lexer_clone(lexer)
      Tried(r) ==
        IF r.status = "ok" THEN Ok(r.val, assign(r.sp), <<Ran("what", what, newLexer.sp, r)>>)
        ELSE Propagate(r, lexer.sp, <<Ran("what", what, newLexer.sp, r)>>)
  IN With(Parse(what, newLexer), Tried)

\* f(x, y) of the function an operator parser gave: subtraction, or the
\* pair of its arguments
IsFunction(f) == f.tag = "const" /\ f.c \in {"sub", "pair"}

Call2(f, x, y) == IF f.c = "sub" THEN NumVal(x.n - y.n) ELSE ListVal(<<x, y>>)

NotAFunction == OtherError("TypeError", <<"f is not a function">>)

RECURSIVE chainRightScan(_, _, _, _)
RECURSIVE chainRightRest(_, _, _, _, _)
\* scan().parse(lexer) of chainRightMore
chainRightScan(expr, operator, lexer, log) ==
  LET Scanned(x) ==
        IF x.status # "ok"
        THEN Propagate(x, x.sp, Append(log, Ran("expr", expr, lexer.sp, x)))
        ELSE chainRightRest(expr, operator, [lexer EXCEPT !.sp = x.sp], x.val,
                            Append(log, Ran("expr", expr, lexer.sp, x)))
  IN With(Parse(expr, lexer), Scanned)

\* rest(x).parse(lexer) of chainRightMore
chainRightRest(expr, operator, lexer, x, log) ==
  LET Scanned(f, y) ==
        IF y.status = "ok"
        THEN IF IsFunction(f.val) THEN Ok(Call2(f.val, x, y.val), y.sp, y.log)
             ELSE Throw(NotAFunction, y.sp, y.log)
        ELSE IF y.status = "fail" THEN Ok(x, y.sp, y.log)
        ELSE y
      Operator(f) ==
        IF f.status = "ok"
        THEN With(chainRightScan(expr, operator, [lexer EXCEPT !.sp = f.sp],
                                 Append(log, Ran("operator", operator, lexer.sp, f))),
                  LAMBDA y : Scanned(f, y))
        ELSE IF f.status = "fail"
        THEN Ok(x, f.sp, Append(log, Ran("operator", operator, lexer.sp, f)))
        ELSE Propagate(f, f.sp, Append(log, Ran("operator", operator, lexer.sp, f)))
  IN With(Parse(operator, lexer), Operator)

chainRightMore(expr, operator, lexer) == chainRightScan(expr, operator, lexer, <<>>)

RECURSIVE chainLeftRest(_, _, _, _, _)
\* a rest(x) that puts the cursor back before the operator when the operand
\* after it fails
chainLeftRest_rollsBack(expr, operator, lexer, x, log) ==
  LET Operand(f, lg, y) ==
        IF y.status = "ok"
        THEN IF IsFunction(f.val)
             THEN chainLeftRest(expr, operator, [lexer EXCEPT !.sp = y.sp],
                                Call2(f.val, x, y.val),
                                Append(lg, Ran("expr", expr, f.sp, y)))
             ELSE Throw(NotAFunction, y.sp, Append(lg, Ran("expr", expr, f.sp, y)))
        ELSE IF y.status = "fail" THEN Ok(x, lexer.sp, Append(lg, Ran("expr", expr, f.sp, y)))
        ELSE Propagate(y, y.sp, Append(lg, Ran("expr", expr, f.sp, y)))
      Operator(f) ==
        IF f.status = "ok"
        THEN With(Parse(expr, [lexer EXCEPT !.sp = f.sp]),
                  LAMBDA y : Operand(f, Append(log, Ran("operator", operator, lexer.sp, f)), y))
        ELSE IF f.status = "fail"
        THEN Ok(x, f.sp, Append(log, Ran("operator", operator, lexer.sp, f)))
        ELSE Propagate(f, f.sp, Append(log, Ran("operator", operator, lexer.sp, f)))
  IN With(Parse(operator, lexer), Operator)

\* rest(x).parse(lexer) of chainLeftMore
chainLeftRest(expr, operator, lexer, x, log) ==
  LET Operand(f, lg, y) ==
        IF y.status = "ok"
        THEN IF IsFunction(f.val)
             THEN chainLeftRest(expr, operator, [lexer EXCEPT !.sp = y.sp],
                                Call2(f.val, x, y.val),
                                Append(lg, Ran("expr", expr, f.sp, y)))
             ELSE Throw(NotAFunction, y.sp, Append(lg, Ran("expr", expr, f.sp, y)))
        ELSE IF y.status = "fail" THEN Ok(x, y.sp, Append(lg, Ran("expr", expr, f.sp, y)))
        ELSE Propagate(y, y.sp, Append(lg, Ran("expr", expr, f.sp, y)))
      Operator(f) ==
        IF f.status = "ok"
        THEN With(Parse(expr, [lexer EXCEPT !.sp = f.sp]),
                  LAMBDA y : Operand(f, Append(log, Ran("operator", operator, lexer.sp, f)), y))
        ELSE IF f.status = "fail"
        THEN Ok(x, f.sp, Append(log, Ran("operator", operator, lexer.sp, f)))
        ELSE Propagate(f, f.sp, Append(log, Ran("operator", operator, lexer.sp, f)))
  IN With(Parse(operator, lexer), Operator)

\* a chainLeftMore that folds to the right
chainLeftMore_foldsRight(expr, operator, lexer) == chainRightMore(expr, operator, lexer)

chainLeftMore(expr, operator, lexer) ==
  LET First(x) ==
        IF x.status # "ok" THEN Propagate(x, x.sp, <<Ran("expr", expr, lexer.sp, x)>>)
        ELSE chainLeftRest(expr, operator, [lexer EXCEPT !.sp = x.sp], x.val,
                           <<Ran("expr", expr, lexer.sp, x)>>)
  IN With(Parse(expr, lexer), First)

\* p.parse(lexer)
Parse(p, lexer) ==
  CASE p.op = "trivial" -> trivial(IF p.v.tag = "none" THEN ConstVal(p.arg) ELSE p.v, lexer)
    [] p.op = "anyToken" -> anyToken(lexer)
    [] p.op = "bind" -> bind(p.ps[1], p.k, lexer)
    [] p.op = "combine" -> combineMany(p.ps, lexer)
    [] p.op = "notFollowedBy" -> notFollowedBy(p.ps[1], p.ps[2], lexer)
    [] p.op = "token" -> token(p.arg, lexer)
    [] p.op = "then" -> then(p.ps[1], p.ps[2], lexer)
    [] p.op = "expect" -> expect(p.ps[1], p.arg, lexer)
    [] p.op = "many" -> many(p.ps[1], lexer)
    [] p.op = "parallel" -> parallel(p.ps[1], p.ps[2], lexer)
    [] p.op = "ifElse" -> ifElse(p.ps[1], p.ps[2], lexer)
    [] p.op = "choices" -> choices(p.ps, lexer)
    [] p.op = "test" -> test(p.ps[1], lexer)
    [] p.op = "attempt" -> attempt(p.ps[1], lexer)
    [] p.op = "chainLeftMore" -> chainLeftMore(p.ps[1], p.ps[2], lexer)
    [] p.op = "chainRightMore" -> chainRightMore(p.ps[1], p.ps[2], lexer)
    [] p.op = "string" -> string(p.arg, lexer)
    [] p.op = "end" -> end(p.ps[1], p.v, lexer)

\* ----------------------------------------------------------------- Int32
\* A number of the program: an integer w2 * 2^32 + w1 * 2^16 + w0 with w1
\* and w0 in 0..2^16 - 1 (two's complement, w2 the words above the low 32
\* bits), a number with that integer part and a fraction, NaN, or an
\* infinity.
Limb == 2 ^ 16

HalfLimb == 2 ^ 15

Number(w2, w1, w0, sort) == [w2 |-> w2, w1 |-> w1, w0 |-> w0, sort |-> sort]

NoNumber == Number(0, 0, 0, "integer")

\* value >> 0: ToInt32, the low 32 bits of the integer part read as a
\* signed integer, and 0 for NaN and the infinities
ShiftRight0(value) ==
  IF value.sort \in {"NaN", "Infinity", "-Infinity"} THEN NoNumber
  ELSE Number(IF value.w1 >= HalfLimb THEN 0 - 1 ELSE 0, value.w1, value.w0, "integer")

\* Int32.test(value): value >> 0 !== value
Int32_test(value) == ShiftRight0(value) # value

\* Int32.cast(value)
Int32_cast(value) == ShiftRight0(value)

\* ------------------------------------------------------ objects by address
\* A heap h holds the SourcePosition objects (h.positions) and the Lexer
\* objects (h.lexers) a program has made: an object is the index of its
\* entry, a Lexer's sp is the address of its SourcePosition.  h.ret is what
\* the last method called returned or threw.
NoRet ==
  [other |-> 0, kind |-> "none", tok |-> NoToken, err |-> NoErr, op |-> "none", value |-> NoNumber,
   result |-> 0, int32 |-> NoNumber, on |-> 0, tokens |-> <<>>, answer |-> ""]

NoParser == Node("none", "", <<>>)

NoOut == [sp |-> NewSourcePosition(<<>>, SourceName), err |-> NoErr, val |-> NoVal,
          log |-> <<>>, status |-> "none"]

\* a call of parallel(...).parse under way: the parsers the two branches
\* have still to run, what each branch promise settled with, and what the
\* promise of the call settled with
NoPar ==
  [entry |-> NewSourcePosition(<<>>, SourceName), out |-> NoOut,
   ifParser |-> NoParser, elseParser |-> NoParser, phase |-> "idle", ifRest |-> <<>>,
   elseRest |-> <<>>, ifOut |-> NoOut, elseOut |-> NoOut]

\* sources lists, for every lexer, the text given to the constructor of the
\* lexer it stems from, and preset is the skipSpaces option given to the
\* constructor of the rule set; par is the call of parallel under way
NoHeap ==
  [ret |-> NoRet, positions |-> <<>>, lexers |-> <<>>, sources |-> <<>>,
   preset |-> "undefined", failures |-> <<>>, par |-> NoPar]

\* Int32.take(value) in heap h: the Int32 made, or the Error thrown
Int32_take(h, value) ==
  IF Int32_test(value)
  THEN [h EXCEPT !.ret = [NoRet EXCEPT !.kind = "return", !.op = "take",
                                       !.value = value, !.int32 = value]]
  ELSE [h EXCEPT !.ret = [NoRet EXCEPT !.kind = "throw", !.op = "take", !.value = value,
                                       !.err = OtherError("Error",
                                         <<"value ", "value", " is not a valid 32-bit integer">>)]]

\* h.failures holds the ParseFailure objects: the pfs of a ParseFailures
\* object are the addresses of the objects it was given.
\* a.combine(b), with a and b the objects at i and j of fs: what the call
\* leaves in fs and the address of the object it returns
FailureCombine(fs, i, j) ==
  IF fs[i].kind = "ParseFailures"
  THEN \* ParseFailures.combine: push on this.pfs, return this
       [result |-> i,
        failures |-> [fs EXCEPT ![i].pfs = @ \o (IF fs[j].kind = "ParseFailures"
                                                 THEN fs[j].pfs ELSE <<j>>)]]
  ELSE \* ParseFailure.combine: new ParseFailures(this, ...others)
       [result |-> Len(fs) + 1, failures |-> Append(fs, ParseFailures(<<i, j>>))]

\* a.combine(b) in heap h
CombineIn(h, i, j) ==
  With(FailureCombine(h.failures, i, j), LAMBDA r :
    [h EXCEPT !.failures = r.failures,
              !.ret = [NoRet EXCEPT !.kind = "return", !.op = "combine", !.on = i,
                                    !.other = j, !.result = r.result]])

\* the SourcePosition object of lexer i
CursorOf(h, i) == h.positions[h.lexers[i].sp]

\* new Lexer(ruleSet, source, sourceName)
NewLexer(h, ruleSet, source, sourceName) ==
  [h EXCEPT !.positions = Append(@, NewSourcePosition(source, sourceName)),
            !.lexers = Append(@, [sp |-> Len(h.positions) + 1, ruleSet |-> ruleSet]),
            !.sources = Append(@, source)]

\* a clone() that hands out the cursor object of the original
LexerClone_sharesCursor(h, i) ==
  [h EXCEPT !.lexers = Append(@, h.lexers[i]),
            !.ret = [NoRet EXCEPT !.op = "clone", !.on = i],
            !.sources = Append(@, h.sources[i])]

\* Lexer.clone(): the constructor makes a position of the rest of the source,
\* and lexer.sp = this.sp.clone() puts another new one in its place
LexerClone(h, i) ==
  With(NewLexer(h, h.lexers[i].ruleSet, CursorOf(h, i).future, CursorOf(h, i).name),
       LAMBDA made :
         [made EXCEPT !.positions = Append(@, clone(CursorOf(h, i))),
                      !.lexers[Len(made.lexers)].sp = Len(made.positions) + 1,
                      !.ret = [NoRet EXCEPT !.op = "clone", !.on = i],
                      !.sources[Len(made.sources)] = h.sources[i]])

\* lexer i calls next(): the steps are taken on the lexer's own cursor object
LexerNext(h, i) ==
  With(next(h.lexers[i].ruleSet, CursorOf(h, i)), LAMBDA r :
    [h EXCEPT !.positions[h.lexers[i].sp] = r.sp,
              !.ret = [NoRet EXCEPT !.kind = r.kind, !.tok = r.tok, !.err = r.err,
                                    !.op = "next", !.on = i]])

RECURSIVE allTokensLoop(_, _, _)
\* while (true) { try { ts.push(this.next()) } catch (e) { ParseFailure or
\* EOF: break; anything else: throw e } }
allTokensLoop(rs, sp, ts) ==
  With(next(rs, sp), LAMBDA r :
    IF r.kind = "token" THEN allTokensLoop(rs, r.sp, Append(ts, r.tok))
    ELSE IF r.kind = "EOF" \/ IsParseFailure(r.err)
    THEN [sp |-> r.sp, kind |-> "return", err |-> NoErr, tokens |-> ts]
    ELSE [sp |-> r.sp, kind |-> "throw", err |-> r.err, tokens |-> <<>>])

\* lexer i calls allTokens()
LexerAllTokens(h, i) ==
  With(allTokensLoop(h.lexers[i].ruleSet, CursorOf(h, i), <<>>), LAMBDA r :
    [h EXCEPT !.positions[h.lexers[i].sp] = r.sp,
              !.ret = [NoRet EXCEPT !.kind = r.kind, !.err = r.err, !.op = "allTokens",
                                    !.on = i, !.tokens = r.tokens]])

\* lexer i's cursor calls advance(step)
LexerAdvance(h, i, step) ==
  With(advance(CursorOf(h, i), step), LAMBDA a :
    [h EXCEPT !.positions[h.lexers[i].sp] = a.sp,
              !.ret = [NoRet EXCEPT !.kind = IF a.thrown THEN "throw" ELSE "return",
                                    !.err = IF a.thrown THEN UnexpectedEOF ELSE NoErr,
                                    !.op = "advance", !.on = i]])

\* lexers[i].sp.compareTo(lexers[j].sp)
LexerCompareTo(h, i, j) ==
  [h EXCEPT !.ret = [NoRet EXCEPT !.kind = "return", !.op = "compareTo", !.on = i,
                                  !.other = j,
                                  !.answer = compareTo(CursorOf(h, i), CursorOf(h, j))]]

\* ---- parallel, step by step.  The caller's lexer is lexer 1 of the heap;
\* ifLexer and elseLexer are the lexers 2 and 3 that the two calls of
\* lexer.clone() make.  A branch is a parser or p.then(q); p and q each run
\* between two awaits, and the steps of the two branches are taken in any
\* order.

\* the parser of a branch that has the parsers of steps to run
BranchOf(steps) == IF Len(steps) = 1 THEN steps[1] ELSE thenP(steps[1], steps[2])

\* parallel(ifParser, elseParser).parse(lexer) up to the return of the
\* promise: the two clones are made
ParallelStart(h, ifSteps, elseSteps) ==
  With(LexerClone(LexerClone(h, 1), 1), LAMBDA made :
    [made EXCEPT !.par = [NoPar EXCEPT !.phase = "running", !.entry = CursorOf(h, 1),
                                       !.ifParser = BranchOf(ifSteps),
                                       !.elseParser = BranchOf(elseSteps),
                                       !.ifRest = ifSteps, !.elseRest = elseSteps]])

\* Promise.all(...).then: both branch promises are resolved, with a result
\* or with a ParseFailure
ParallelThen(h, a, b) ==
  IF a.status = "fail" /\ b.status = "fail"
  THEN [h EXCEPT !.par.phase = "settled",
                 !.par.out = Throw(combine(a.err, b.err), CursorOf(h, 1), <<>>)]
  ELSE IF a.status = "fail"
  THEN [h EXCEPT !.par.phase = "settled",
                 !.positions[h.lexers[1].sp] = assign(CursorOf(h, 3)),
                 !.par.out = Ok(b.val, assign(CursorOf(h, 3)), <<>>)]
  ELSE IF b.status = "fail"
  THEN [h EXCEPT !.par.phase = "settled",
                 !.positions[h.lexers[1].sp] = assign(CursorOf(h, 2)),
                 !.par.out = Ok(a.val, assign(CursorOf(h, 2)), <<>>)]
  ELSE With(IF compareTo(CursorOf(h, 2), CursorOf(h, 3)) = "forward"
            THEN assign(CursorOf(h, 3)) ELSE assign(CursorOf(h, 2)),
            LAMBDA sp :
              [h EXCEPT !.par.phase = "settled",
                        !.positions[h.lexers[1].sp] = sp,
                        !.par.out = Throw(OtherError("Error",
                                            <<"syntax ambiguity found in parallel parser">>),
                                          sp, <<>>)])

\* what follows when a branch promise settles: a rejection rejects the
\* promise of the call if it is not settled yet (Promise.all, .catch), and
\* with both branch promises resolved the handler of .then runs
ParallelSettle(h) ==
  With(h.par, LAMBDA par :
    IF par.phase # "running" THEN h
    ELSE IF par.ifOut.status = "error" /\ par.elseOut.status # "error"
    THEN [h EXCEPT !.par.phase = "settled",
                   !.par.out = Throw(par.ifOut.err, CursorOf(h, 1), <<>>)]
    ELSE IF par.elseOut.status = "error"
    THEN [h EXCEPT !.par.phase = "settled",
                   !.par.out = Throw(par.elseOut.err, CursorOf(h, 1), <<>>)]
    ELSE IF par.ifOut.status = "none" \/ par.elseOut.status = "none" THEN h
    ELSE ParallelThen(h, par.ifOut, par.elseOut))

\* one step of the branch on lexer i: the next parser of the branch runs on
\* the branch's lexer; the branch promise settles with the failure of the
\* parser, or with the result of the last one
BranchStep(h, i) ==
  LET steps == IF i = 2 THEN h.par.ifRest ELSE h.par.elseRest
      r == Parse(Head(steps), [sp |-> CursorOf(h, i), ruleSet |-> h.lexers[i].ruleSet])
      settled == r.status # "ok" \/ Len(steps) = 1
      ran == [h EXCEPT !.positions[h.lexers[i].sp] = r.sp]
  IN ParallelSettle(
       IF i = 2
       THEN [ran EXCEPT !.par.ifRest = Tail(steps),
                        !.par.ifOut = IF settled THEN [r EXCEPT !.log = <<>>] ELSE @]
       ELSE [ran EXCEPT !.par.elseRest = Tail(steps),
                        !.par.elseOut = IF settled THEN [r EXCEPT !.log = <<>>] ELSE @])

\* ------------------------------------------------------- the state machine
\* A session owns one Lexer and calls parse(lexer) on parsers, one call after
\* the other, each starting where the previous one left the cursor.
VARIABLES
  lexer,   \* the session's Lexer: [ruleSet, sp]
  call,    \* the last call that settled: [parser, entry, out]
  frame,   \* the call of many(one).parse(lexer) that is under way, if any
  heap     \* the objects made besides the session's lexer, and the last
           \* method called on one of them

vars == <<lexer, call, frame, heap>>

Sources == AllSeqs(Chars, MaxLen)

TokenTypes == {"a", "b"}

Tokens == {tokenP(t) : t \in TokenTypes}

Seqs == {thenP(p, q) : p \in Tokens, q \in Tokens}

\* the parsers given as arguments to the combinators
Args ==
  Tokens \cup Seqs \cup {attemptP(s) : s \in Seqs}
  \cup {trivialP("x"), parallelP(tokenP("a"), trivialP("x")), manyP(tokenP("a"))}

\* the branches of choices: the last one fails with a composite failure
ChoiceArgs ==
  Tokens \cup {thenP(tokenP("a"), tokenP("a")), thenP(tokenP("a"), tokenP("b")),
               ifElseP(tokenP("b"), thenP(tokenP("b"), tokenP("a")))}

ChoiceLists == {ps \in AllSeqs(ChoiceArgs, 3) : Len(ps) >= 1}

NoCall == [parser |-> NoParser, entry |-> NewSourcePosition(<<>>, SourceName), out |-> NoOut]

NoFrame == [i |-> 0, one |-> NoParser,
            log |-> <<>>, entry |-> NewSourcePosition(<<>>, SourceName), result |-> <<>>,
            active |-> FALSE]

\* the parsers that are sequenced: a token, or two tokens in a row
Firsts == Tokens \cup Seqs

\* the parsers looked ahead for
Followings == Tokens \cup Seqs \cup {anyTokenP}

\* results given to trivial
TrivialVals == {ConstVal("x"), TokVal(Token("a", <<"a">>, 1, 1))}

\* the parsers bind starts from
BindFirsts == Tokens \cup {trivialOf(v) : v \in TrivialVals}

\* the callbacks given to bind
Callbacks ==
  {trivialK, byTypeK(tokenP("a"), tokenP("b")), constK(thenP(tokenP("a"), tokenP("b")))}
  \cup {constK(q) : q \in Tokens}

\* the arguments of combine2 and combineMany
CombineArgs ==
  Tokens \cup Seqs \cup {trivialP("x")} \cup {bindP(p, constK(q)) : p \in Tokens, q \in Tokens}

CombineLists == {ps \in AllSeqs(CombineArgs, 2) : Len(ps) = 2}
                \cup {<<p, q, tokenP("a")>> : p \in Seqs, q \in Tokens}

\* new Lexer(ruleSet, source, sourceName)
Init ==
  /\ \E source \in Sources :
       lexer = [sp |-> NewSourcePosition(source, SourceName), ruleSet |-> RuleSetAB]
  /\ call = NoCall
  /\ frame = NoFrame
  /\ heap = NoHeap

\* p.parse(lexer), started when no other call is under way or unhandled
Call(p) ==
  /\ ~frame.active
  /\ call = NoCall
  /\ \E out \in {Parse(p, lexer)} :
       /\ call' = [parser |-> p, entry |-> lexer.sp, out |-> out]
       /\ lexer' = [lexer EXCEPT !.sp = out.sp]
  /\ UNCHANGED <<frame, heap>>

CallToken == \E t \in TokenTypes : Call(tokenP(t))

CallThen == \E p \in Tokens, q \in Tokens : Call(thenP(p, q))

CallIfElse == \E p \in Args, q \in Args : Call(ifElseP(p, q))

CallAttempt == \E p \in Args : Call(attemptP(p))

CallTest == \E p \in Args : Call(testP(p))

CallChoices == \E ps \in ChoiceLists : Call(choicesP(ps))

CallParallel == \E p \in Args, q \in Args : Call(parallelP(p, q))

CallExpect == \E p \in Args : Call(expectP(p, "msg"))

\* many(one).parse(lexer) up to its loop
CallMany ==
  /\ ~frame.active
  /\ call = NoCall
  /\ \E one \in Args :
       frame' = [i |-> 0, one |-> one, log |-> <<>>,
                 entry |-> lexer.sp, result |-> <<>>, active |-> TRUE]
  /\ UNCHANGED <<lexer, call, heap>>

\* i++: the passes are counted up to MaxIter, and after that only the parity
\* of the count is followed
NextPass(i) == IF i <= MaxIter THEN i + 1 ELSE i - 1

\* of the results and of the passes of a loop, the last MaxIter are followed
LastOf(s) == IF Len(s) > MaxIter THEN Tail(s) ELSE s

\* one test of `i < MAX_REPEAT` and, when it holds, one pass of the loop
ManyIter ==
  /\ frame.active
  /\ UNCHANGED heap
  /\ IF ~BelowMaxRepeat(frame.i)
     THEN /\ call' = [parser |-> manyP(frame.one), entry |-> frame.entry,
                      out |-> Ok(ListVal(frame.result), lexer.sp, frame.log)]
          /\ frame' = NoFrame
          /\ UNCHANGED lexer
     ELSE \E s \in {manyStep(frame.one, lexer, lexer.sp, frame.result, frame.log)} :
             /\ lexer' = [lexer EXCEPT !.sp = s.out.sp]
             /\ IF s.more
                THEN /\ frame' = [frame EXCEPT !.result = LastOf(s.result),
                                               !.log = LastOf(s.out.log),
                                               !.i = NextPass(frame.i)]
                     /\ UNCHANGED call
                ELSE /\ frame' = NoFrame
                     /\ call' = [parser |-> manyP(frame.one), entry |-> frame.entry,
                                 out |-> s.out]

\* the .then / .catch handler of the session takes the settled result
Handle ==
  /\ ~frame.active
  /\ call.out.status \in {"ok", "fail", "error"}
  /\ call' = NoCall
  /\ UNCHANGED <<lexer, frame, heap>>

Next ==
  \/ Handle
  \/ CallToken
  \/ CallThen
  \/ CallIfElse
  \/ CallAttempt
  \/ CallTest
  \/ CallChoices
  \/ CallParallel
  \/ CallExpect
  \/ CallMany
  \/ ManyIter

Spec == Init /\ [][Next]_vars

\* the sessions that call only many(one).parse
NextMany ==
  \/ Handle
  \/ CallMany
  \/ ManyIter

SpecMany == Init /\ [][NextMany]_vars

\* a pass of the loop of many that can be made is made: the loop is driven by
\* the microtask queue, which runs every continuation that is ready
FairSpecMany == SpecMany /\ WF_vars(ManyIter)

\* ------------------------------------------- sessions of sequencing parsers
CallNotFollowedBy == \E p \in Firsts, q \in Followings : Call(notFollowedByP(p, q))

CallEof == \E p \in Firsts \cup {trivialP("x")} : Call(eofP(p))

CallBind ==
  \E p \in BindFirsts, f \in Callbacks :
    \/ Call(bindP(p, f))
    \/ \E g \in Callbacks : Call(bindP(bindP(p, f), g))
    \/ \E g \in Callbacks : Call(bindP(p, bindK(f, g)))

CallCombine ==
  \E ps \in CombineLists :
    \/ Call(combineP(ps))
    \/ Call(ifElseP(combineP(ps), trivialP("x")))

NextSeq ==
  \/ Handle
  \/ CallCombine
  \/ CallToken
  \/ CallThen
  \/ CallNotFollowedBy
  \/ CallEof
  \/ CallBind

SpecSeq == Init /\ [][NextSeq]_vars

\* ------------------------------------------------ sessions of the attempts
\* test(p).then(p).parse(lexer)
CallTestThen == \E p \in Args : Call(thenP(testP(p), p))

NextTry ==
  \/ Handle
  \/ CallAttempt
  \/ CallTestThen

SpecTry == Init /\ [][NextTry]_vars

\* ------------------------------------------------- sessions of the lexer
\* the characters of the strings that are written as literals
DecodedChars == {"a", "A", "\n", "\"", "\\"}

\* how the characters outside the plain ones are written
Styles == {"short", "hex", "unicode"}

\* a character as it is written between the quotes: the escapes of the table
\* in next()
WrittenChar(c, style) ==
  CASE c = "\n" -> <<"\\", "n">>
    [] c = "\"" -> <<"\\", "\"">>
    [] c = "\\" -> <<"\\", "\\">>
    [] c = "A" /\ style = "hex" -> <<"\\", "x", "4", "1">>
    [] c = "A" /\ style = "unicode" -> <<"\\", "u", "0", "0", "4", "1">>
    [] OTHER -> <<c>>

RECURSIVE Written(_, _)
Written(decoded, style) ==
  IF decoded = <<>> THEN <<>>
  ELSE WrittenChar(Head(decoded), style) \o Written(Tail(decoded), style)

\* the literal of a string, between double quotes
Literal(decoded, style) == <<"\"">> \o Written(decoded, style) \o <<"\"">>

Decoded == AllSeqs(DecodedChars, MaxLen)

\* what follows the literal in the source
Afters == {<<>>, <<" ", "\"", "a", "\"">>}

StringSources ==
  {Literal(d, style) \o after : d \in Decoded, style \in Styles, after \in Afters}

\* the characters of the sources with numbers
NumberChars == {"1", ".", "e", "E", "a", "+", " "}

\* sources that start with a digit, and the examples of the rules
NumberSources ==
  {src \in AllSeqs(NumberChars, MaxLen + 1) : src # <<>> /\ Head(src) = "1"}
  \cup {<<"1", "2", "3", "a", "b", "c">>, <<"0", "x", "1", "f", "g">>, <<"0", "b", "1", "2">>}

\* what the sources with comments are made of: the two markers, a letter
\* and a digit
CommentPieces == {CommentBegin, CommentEnd, <<"a">>, <<"1">>}

RECURSIVE Flatten(_)
\* the pieces written one after the other
Flatten(pieces) == IF pieces = <<>> THEN <<>> ELSE Head(pieces) \o Flatten(Tail(pieces))

\* /* a /* b */ c */1
NestedExample ==
  << CommentBegin, <<" ">>, <<"a">>, <<" ">>, CommentBegin, <<" ">>, <<"b">>, <<" ">>,
     CommentEnd, <<" ">>, <<"c">>, <<" ">>, CommentEnd, <<"1">> >>

\* the sources that start with a comment, as their pieces
CommentTexts ==
  {ps \in AllSeqs(CommentPieces, MaxLen + 2) : ps # <<>> /\ Head(ps) = CommentBegin}
  \cup {NestedExample}

\* the rule sets and sources of the lexer sessions
LexSessions ==
  {<<RuleSetString, src>> : src \in StringSources}
  \cup {<<rs, src>> : rs \in {RuleSetInteger, RuleSetNumbers}, src \in NumberSources}
  \cup {<<rs, Flatten(ps)>> : rs \in {RuleSetNested, RuleSetFlat}, ps \in CommentTexts}

\* new Lexer(ruleSet, source, sourceName)
InitLex ==
  /\ \E session \in LexSessions :
       lexer = [sp |-> NewSourcePosition(session[2], SourceName), ruleSet |-> session[1]]
  /\ call = NoCall
  /\ frame = NoFrame
  /\ heap = NoHeap

\* anyToken().parse(lexer): the next token of the source
CallAnyToken == Call(anyTokenP)

NextLex ==
  \/ Handle
  \/ CallAnyToken

SpecLex == InitLex /\ [][NextLex]_vars

\* ------------------------------------------------ sessions of the escapes
\* the character after the backslash: the four families with digits, a
\* decimal digit, a one-letter escape and a letter that is no escape
EscapeHeads == {"o", "x", "u", "w", "1", "n", "q"}

\* what follows it: octal digits and a digit that is not octal
EscapeDigits == AllSeqs({"1", "4", "8"}, MaxLen + 1)

\* the end of the source: nothing, the closing quote, or a letter that is no
\* digit before the closing quote
EscapeTails == {<<>>, <<"\"">>, <<"g", "\"">>}

\* the opening quote and the backslash
EscapeOpen == <<"\"", "\\">>

EscapeSources ==
  {EscapeOpen}
  \cup {EscapeOpen \o <<h>> \o ds \o t :
          h \in EscapeHeads, ds \in EscapeDigits, t \in EscapeTails}

\* new Lexer(ruleSet, source, sourceName), the source a string that starts
\* with an escape
InitEsc ==
  /\ \E src \in EscapeSources :
       lexer = [sp |-> NewSourcePosition(src, SourceName), ruleSet |-> RuleSetString]
  /\ call = NoCall
  /\ frame = NoFrame
  /\ heap = NoHeap

NextEsc ==
  \/ Handle
  \/ CallAnyToken

SpecEsc == InitEsc /\ [][NextEsc]_vars

\* ----------------------------------------------- sessions of the integers
\* the digits after the prefix of a family; the decimal family has none
FamilyDigits(prefix) ==
  CASE prefix = <<"0", "x">> -> {"1", "F"}
    [] prefix = <<"0", "o">> -> {"1", "7"}
    [] prefix = <<"0", "b">> -> {"0", "1"}
    [] OTHER -> {"1", "2"}

IntegerPrefixes == {<<>>, <<"0", "x">>, <<"0", "o">>, <<"0", "b">>}

\* the well-formed literals: 12, 0x1F, 0o17, 0b101 and the like
IntegerLiterals ==
  UNION {{prefix \o ds : ds \in AllSeqs(FamilyDigits(prefix), MaxLen) \ {<<>>}} :
         prefix \in IntegerPrefixes}

\* what may follow a number: the end of the input, whitespace, punctuation
Separating == {<<>>, <<" ">>, <<"\n">>, <<",">>}

\* what follows the literal in the source; the letter g follows no number
IntegerFollows == Separating \cup {<<"g">>}

IntegerSources == {lit \o f : lit \in IntegerLiterals, f \in IntegerFollows}

\* new Lexer(new RuleSet([], {numbers: {integer: true}}), source, sourceName)
InitInt ==
  /\ \E src \in IntegerSources :
       lexer = [sp |-> NewSourcePosition(src, SourceName), ruleSet |-> RuleSetInteger]
  /\ call = NoCall
  /\ frame = NoFrame
  /\ heap = NoHeap

NextInt ==
  \/ Handle
  \/ CallAnyToken

SpecInt == InitInt /\ [][NextInt]_vars

\* ------------------------------------------- sessions of the static rules
\* new RuleSet([{pattern: '=', tokenType: '='}, {pattern: '==', tokenType: '=='}], {})
RuleSetShortFirst ==
  [RuleSetAB EXCEPT !.staticGuard = << [key |-> <<"=">>, tk |-> "="],
                                       [key |-> <<"=", "=">>, tk |-> "=="] >>]

\* new RuleSet([{pattern: '==', tokenType: '=='}, {pattern: '=', tokenType: '='}], {})
RuleSetLongFirst ==
  [RuleSetAB EXCEPT !.staticGuard = << [key |-> <<"=", "=">>, tk |-> "=="],
                                       [key |-> <<"=">>, tk |-> "="] >>]

StaticRuleSets == {RuleSetShortFirst, RuleSetLongFirst}

StaticChars == {"=", "x", " "}

StaticSources == AllSeqs(StaticChars, MaxLen + 1)

\* new Lexer(ruleSet, source, sourceName), the rules in either order
InitStatic ==
  /\ \E rs \in StaticRuleSets, src \in StaticSources :
       lexer = [sp |-> NewSourcePosition(src, SourceName), ruleSet |-> rs]
  /\ call = NoCall
  /\ frame = NoFrame
  /\ heap = NoHeap

NextStatic ==
  \/ Handle
  \/ CallAnyToken

SpecStatic == InitStatic /\ [][NextStatic]_vars

\* ------------------------------------------- sessions of the quoted strings
\* new RuleSet([], {string: {quotes: {string: {start: '"', stop: '"', escape: false}}}})
RuleSetRaw ==
  [RuleSetString EXCEPT !.quotes = << [RuleSetString.quotes[1] EXCEPT !.escape = FALSE] >>]

\* new RuleSet([], {string: {quotes: {string:
\*   {start: '"', stop: '"', escape: false, multiline: true}}}})
RuleSetMultiline ==
  [RuleSetString EXCEPT !.quotes = << [RuleSetString.quotes[1] EXCEPT !.escape = FALSE,
                                                                      !.multiline = TRUE] >>]

QuoteRuleSets == {RuleSetString, RuleSetRaw, RuleSetMultiline}

\* the whitespace before the opening quote
QuoteLeads == {<<>>, <<" ">>, <<"\n">>}

\* what follows the opening quote
QuoteBodies == AllSeqs({"\"", "a", "1", "\n", "\\"}, MaxLen)

QuoteSources == {lead \o <<"\"">> \o body : lead \in QuoteLeads, body \in QuoteBodies}

\* new Lexer(ruleSet, source, sourceName), the source a string after
\* whitespace
InitQuote ==
  /\ \E rs \in QuoteRuleSets, src \in QuoteSources :
       lexer = [sp |-> NewSourcePosition(src, SourceName), ruleSet |-> rs]
  /\ call = NoCall
  /\ frame = NoFrame
  /\ heap = NoHeap

NextQuote ==
  \/ Handle
  \/ CallAnyToken

SpecQuote == InitQuote /\ [][NextQuote]_vars

\* ------------------------------------------------- sessions of the chains
\* what the sources of the chains are made of
ChainNumbers == {<<"1", "0">>, <<"3">>, <<"4">>}

ChainSeparators == {<<" ">>, <<"-">>}

RECURSIVE ChainTextsOf(_)
\* the texts of n numbers with a separator between them, as their pieces
ChainTextsOf(n) ==
  IF n = 1 THEN {<<x>> : x \in ChainNumbers}
  ELSE {t \o <<sep, x>> : t \in ChainTextsOf(n - 1), sep \in ChainSeparators,
                          x \in ChainNumbers}

\* up to MaxLen numbers, and after them nothing or one more operator
ChainTexts ==
  {t \o after : t \in UNION {ChainTextsOf(n) : n \in 1..MaxLen},
                after \in {<<>>, << <<"-">> >>}}

\* token('integer').bind(tk => trivial(parseInt(tk.literal)))
integerP == bindP(tokenP("integer"), parseIntK)

\* the operator parsers: trivial(f), and token('-') with f as its result
Operators ==
  {trivialOf(ConstVal(f)) : f \in {"sub", "pair"}}
  \cup {bindP(tokenP("-"), constK(trivialOf(ConstVal(f)))) : f \in {"sub", "pair"}}

InitChain ==
  /\ \E ps \in ChainTexts :
       lexer = [sp |-> NewSourcePosition(Flatten(ps), SourceName), ruleSet |-> RuleSetMinus]
  /\ call = NoCall
  /\ frame = NoFrame
  /\ heap = NoHeap

CallChainLeftMore == \E operator \in Operators : Call(chainLeftMoreP(integerP, operator))

CallChainRightMore == \E operator \in Operators : Call(chainRightMoreP(integerP, operator))

NextChain ==
  \/ Handle
  \/ CallChainLeftMore
  \/ CallChainRightMore

SpecChain == InitChain /\ [][NextChain]_vars

\* ------------------------------------------- sessions with ambiguities
\* parallel parsers whose two branches can both succeed
Ambiguous ==
  {parallelP(trivialP("x"), trivialP("x")), parallelP(tokenP("a"), trivialP("x")),
   parallelP(tokenP("a"), tokenP("a"))}

\* the branches, loop bodies and operands: a token, trivial, a parallel
\* parser, and a parallel parser after a token
AmbArgs ==
  Tokens \cup {trivialP("x")} \cup Ambiguous \cup {thenP(tokenP("b"), p) : p \in Ambiguous}

\* the operands of the chains: a token, or an ambiguity where there is none
Operands == {ifElseP(tokenP("b"), p) : p \in Ambiguous} \cup Ambiguous \cup {tokenP("b")}

\* the operators of the chains: token('a') with the pairing function as its
\* result, or a parallel parser; both consume a token where they succeed
AmbOperators ==
  {bindP(tokenP("a"), constK(trivialOf(ConstVal("pair")))),
   parallelP(tokenP("a"), tokenP("a"))}

CallIfElseAmb == \E p \in AmbArgs, q \in AmbArgs : Call(ifElseP(p, q))

CallManyAmb == \E p \in AmbArgs : Call(manyP(p))

CallChoicesAmb == \E p \in AmbArgs, q \in AmbArgs : Call(choicesP(<<p, q>>))

CallAttemptAmb == \E p \in AmbArgs : Call(attemptP(p))

CallOptionalAmb == \E p \in AmbArgs : Call(optionalP(p))

CallChainLeftAmb ==
  \E expr \in Operands, operator \in AmbOperators : Call(chainLeftMoreP(expr, operator))

CallChainRightAmb ==
  \E expr \in Operands, operator \in AmbOperators : Call(chainRightMoreP(expr, operator))

NextAmb ==
  \/ Handle
  \/ CallIfElseAmb
  \/ CallManyAmb
  \/ CallChoicesAmb
  \/ CallAttemptAmb
  \/ CallOptionalAmb
  \/ CallChainLeftAmb
  \/ CallChainRightAmb

SpecAmb == Init /\ [][NextAmb]_vars

\* ------------------------------------------- sessions of separated lists
ListChars == {"a", ",", " ", "?"}

ListSources == AllSeqs(ListChars, MaxLen + 1)

\* the separators: the token ',' and the string ','
Separators == {tokenP(","), stringP(",")}

InitList ==
  /\ \E source \in ListSources :
       lexer = [sp |-> NewSourcePosition(source, SourceName), ruleSet |-> RuleSetList]
  /\ call = NoCall
  /\ frame = NoFrame
  /\ heap = NoHeap

CallMoreSeparatedOptionalEnd ==
  \E separator \in Separators : Call(moreSeparatedOptionalEndP(tokenP("a"), separator))

CallManySeparatedOptionalEnd ==
  \E separator \in Separators : Call(manySeparatedOptionalEndP(tokenP("a"), separator))

NextList ==
  \/ Handle
  \/ CallMoreSeparatedOptionalEnd
  \/ CallManySeparatedOptionalEnd

SpecList == InitList /\ [][NextList]_vars

\* moreSeparated(token('a'), separator).parse(lexer)
CallMoreSeparated ==
  \E separator \in Separators : Call(moreSeparatedP(tokenP("a"), separator))

\* manySeparated(token('a'), separator).parse(lexer)
CallManySeparated ==
  \E separator \in Separators : Call(manySeparatedP(tokenP("a"), separator))

NextSep ==
  \/ Handle
  \/ CallMoreSeparated
  \/ CallManySeparated

SpecSep == InitList /\ [][NextSep]_vars

\* ------------------- sessions of ifElse and choices inside many and ifElse
\* an ifElse or a choices whose branches read one or two tokens
Backtracking ==
  {ifElseP(p, q) : p \in Tokens, q \in Seqs} \cup {choicesP(<<p, q>>) : p \in Seqs, q \in Seqs}

CallManyBacktracking == \E one \in Backtracking : Call(manyP(one))

CallIfElseBacktracking == \E p \in Backtracking, q \in Tokens : Call(ifElseP(p, q))

NextNest ==
  \/ Handle
  \/ CallIfElse
  \/ CallChoices
  \/ CallManyBacktracking
  \/ CallIfElseBacktracking

SpecNest == Init /\ [][NextNest]_vars

\* ------------------------------------------ sessions of all the combinators
\* moreSeparated(token('a'), token('b')).parse(lexer)
CallMoreSeparatedAB == Call(moreSeparatedP(tokenP("a"), tokenP("b")))

\* chainLeftMore(token('a'), operator).parse(lexer), the operator the token
\* b that gives the function of pairs
CallChainLeftAB ==
  Call(chainLeftMoreP(tokenP("a"), bindP(tokenP("b"), constK(trivialOf(ConstVal("pair"))))))

NextCursor ==
  \/ Handle
  \/ CallToken
  \/ CallIfElse
  \/ CallMany
  \/ ManyIter
  \/ CallChoices
  \/ CallParallel
  \/ CallAttempt
  \/ CallTest
  \/ CallNotFollowedBy
  \/ CallChainLeftAB
  \/ CallMoreSeparatedAB

SpecCursor == Init /\ [][NextCursor]_vars

\* ------------------------------------------- sessions of lexer objects
\* A program makes a lexer and, at some time, a second one, by clone() or
\* by the constructor, and calls the methods of the two in any order.
ObjChars == {"a", " ", "\n", "\r"}

ObjSources == AllSeqs(ObjChars, MaxLen)

\* the second lexer, when it is not a clone
SecondNames == {SourceName, "other"}

SecondSources == {<<"a">>, <<" ", "?">>}

InitObj ==
  /\ lexer = [sp |-> NewSourcePosition(<<>>, SourceName), ruleSet |-> RuleSetAB]
  /\ call = NoCall
  /\ frame = NoFrame
  /\ \E source \in ObjSources :
       heap = NewLexer(NoHeap, RuleSetAB, source, SourceName)

\* a method of an object is called
Method(h) ==
  /\ heap' = h
  /\ UNCHANGED <<lexer, call, frame>>

CallNewLexer ==
  /\ Len(heap.lexers) = 1
  /\ \E source \in SecondSources, name \in SecondNames :
       Method([NewLexer(heap, heap.lexers[1].ruleSet, source, name)
                 EXCEPT !.ret = [NoRet EXCEPT !.op = "new"]])

CallClone ==
  /\ Len(heap.lexers) = 1
  /\ \E i \in 1..Len(heap.lexers) : Method(LexerClone(heap, i))

CallNext == \E i \in 1..Len(heap.lexers) : Method(LexerNext(heap, i))

CallAllTokens == \E i \in 1..Len(heap.lexers) : Method(LexerAllTokens(heap, i))

CallAdvance ==
  \E i \in 1..Len(heap.lexers), step \in 1..2 : Method(LexerAdvance(heap, i, step))

CallCompareTo ==
  \E i \in 1..Len(heap.lexers), j \in 1..Len(heap.lexers) :
    Method(LexerCompareTo(heap, i, j))

NextObj ==
  \/ CallNewLexer
  \/ CallClone
  \/ CallNext
  \/ CallAllTokens
  \/ CallAdvance
  \/ CallCompareTo

SpecObj == InitObj /\ [][NextObj]_vars

\* ----------------------------------------- sessions of parallel, by steps
\* the sources: tokens a and b
ParSources == AllSeqs({"a", "b"}, MaxLen)

\* what a branch runs between two awaits.  The last two throw a value that is
\* not a ParseFailure: the Error of an ambiguity, and the TypeError of
\* calling the value of an operator parser that is no function.
BranchSteps ==
  {tokenP("a"), tokenP("b"), parallelP(trivialP("x"), trivialP("x")),
   chainLeftMoreP(tokenP("a"), tokenP("b"))}

Branches == {<<p>> : p \in BranchSteps} \cup {<<p, q>> : p \in BranchSteps, q \in BranchSteps}

InitPar ==
  /\ lexer = [sp |-> NewSourcePosition(<<>>, SourceName), ruleSet |-> RuleSetAB]
  /\ call = NoCall
  /\ frame = NoFrame
  /\ \E source \in ParSources :
       heap = NewLexer(NoHeap, RuleSetAB, source, SourceName)

\* parallel(ifParser, elseParser).parse(lexer)
CallParallelStart ==
  /\ heap.par.phase = "idle"
  /\ \E ifSteps \in Branches, elseSteps \in Branches :
       Method(ParallelStart(heap, ifSteps, elseSteps))

\* the if branch goes on
StepIf ==
  /\ heap.par.phase # "idle"
  /\ heap.par.ifOut.status = "none"
  /\ Method(BranchStep(heap, 2))

\* the else branch goes on
StepElse ==
  /\ heap.par.phase # "idle"
  /\ heap.par.elseOut.status = "none"
  /\ Method(BranchStep(heap, 3))

NextPar ==
  \/ CallParallelStart
  \/ StepIf
  \/ StepElse

SpecPar == InitPar /\ [][NextPar]_vars

\* ------------------------------------- sessions of the skipSpaces option
\* the values of presetConfig.skipSpaces
Presets == {"undefined", "true", "false"}

\* new RuleSet([{pattern: 'a', ...}, {pattern: 'b', ...}], {skipSpaces: option})
RuleSetOf(option) == [RuleSetAB EXCEPT !.skipSpaces = skipSpacesOf(option)]

PresetSources == AllSeqs({"a", " ", "\n"}, MaxLen + 1)

InitPreset ==
  /\ lexer = [sp |-> NewSourcePosition(<<>>, SourceName), ruleSet |-> RuleSetAB]
  /\ call = NoCall
  /\ frame = NoFrame
  /\ \E source \in PresetSources, option \in Presets :
       heap = [NewLexer(NoHeap, RuleSetOf(option), source, SourceName)
                 EXCEPT !.preset = option]

NextPreset ==
  \/ CallNext
  \/ CallAllTokens

SpecPreset == InitPreset /\ [][NextPreset]_vars

\* --------------------------------------------- sessions of failure objects
\* A program holds three failures thrown by parsers and combines the
\* failures it holds, two at a time.
\* the objects a program makes at most, and the longest pfs it builds
MaxFailures == MaxLen + 2

MaxPfs == MaxLen + 1

InitFail ==
  /\ lexer = [sp |-> NewSourcePosition(<<>>, SourceName), ruleSet |-> RuleSetAB]
  /\ call = NoCall
  /\ frame = NoFrame
  /\ heap = [NoHeap EXCEPT !.failures =
               << ParseFailure(<<"x">>, 1, 1), ParseFailure(<<"y">>, 1, 2), UnexpectedEOF >>]

CallFailureCombine ==
  \E i \in 1..Len(heap.failures), j \in 1..Len(heap.failures) :
    /\ heap.failures[i].kind # "ParseFailures" => Len(heap.failures) < MaxFailures
    /\ heap.failures[i].kind = "ParseFailures" =>
         Len(FailureCombine(heap.failures, i, j).failures[i].pfs) <= MaxPfs
    /\ Method(CombineIn(heap, i, j))

NextFail == CallFailureCombine

SpecFail == InitFail /\ [][NextFail]_vars

\* ------------------------------------------------- sessions of the Int32
\* the numbers given to Int32: integers around the ends of the 32-bit
\* range, numbers with a fraction, NaN and the infinities
Int32Inputs ==
  {Number(w2, w1, w0, sort) : w2 \in {0 - 1, 0, 1},
                              w1 \in {0, 1, HalfLimb - 1, HalfLimb, Limb - 1},
                              w0 \in {0, 1, Limb - 1},
                              sort \in {"integer", "fraction"}}
  \cup {Number(0, 0, 0, sort) : sort \in {"NaN", "Infinity", "-Infinity"}}

InitInt32 ==
  /\ lexer = [sp |-> NewSourcePosition(<<>>, SourceName), ruleSet |-> RuleSetAB]
  /\ call = NoCall
  /\ frame = NoFrame
  /\ heap = NoHeap

\* Int32.take(value)
CallTake == \E value \in Int32Inputs : Method(Int32_take(heap, value))

\* Int32.test(value)
CallInt32Test ==
  \E value \in Int32Inputs :
    Method([heap EXCEPT !.ret = [NoRet EXCEPT !.kind = "return", !.op = "test",
                                              !.value = value,
                                              !.answer = IF Int32_test(value)
                                                         THEN "true" ELSE "false"]])

NextInt32 ==
  \/ CallTake
  \/ CallInt32Test

SpecInt32 == InitInt32 /\ [][NextInt32]_vars

TypeOK ==
  /\ lexer.sp.line >= 1
  /\ lexer.sp.column >= 1
  /\ Len(lexer.sp.future) <= MaxLen

\* ------------------------------------------------------------ properties
\* the log of the last settled call
Log == call.out.log

Settled == call.out.status \in {"ok", "fail", "error"}

RECURSIVE Leaves(_)
RECURSIVE LeavesOfAll(_)
\* the single failures a failure is made of, composites flattened
Leaves(e) == IF e.kind = "ParseFailures" THEN LeavesOfAll(e.pfs) ELSE <<e>>

LeavesOfAll(es) == IF es = <<>> THEN <<>> ELSE Leaves(Head(es)) \o LeavesOfAll(Tail(es))

RECURSIVE ErrsAt(_, _, _)
\* the failures of the log entries whose index is in I, in log order
ErrsAt(lg, i, I) ==
  IF i > Len(lg) THEN <<>>
  ELSE (IF i \in I THEN <<lg[i].err>> ELSE <<>>) \o ErrsAt(lg, i + 1, I)

\* C1: ifElse(p, q) runs q, from the entry position, exactly when p failed
\* with a ParseFailure and left the cursor at the entry position; when p failed
\* after advancing, ifElse fails with p's failure and q is not run; when p
\* succeeded, q is not run and p's result is returned.
C1_IfElseBacktracksOnlyUnconsumed ==
  (call.parser.op = "ifElse") =>
    LET ranElse == \E i \in 1..Len(Log) : Log[i].role = "else"
    IN /\ Len(Log) \in {1, 2}
       /\ Log[1].role = "if"
       /\ Log[1].parser = call.parser.ps[1]
       /\ Log[1].entry = call.entry
       /\ ranElse <=> (Log[1].status = "fail" /\ Log[1].exit = call.entry)
       /\ ranElse => /\ Len(Log) = 2
                     /\ Log[2].role = "else"
                     /\ Log[2].parser = call.parser.ps[2]
                     /\ Log[2].entry = call.entry
       /\ (Log[1].status = "fail" /\ Log[1].exit # call.entry) =>
            /\ call.out.status = "fail"
            /\ call.out.err = Log[1].err
       /\ (Log[1].status = "ok") =>
            /\ call.out.status = "ok"
            /\ call.out.val = Log[1].val

C1_Witness ==
  /\ call.parser.op = "ifElse"
  /\ Len(Log) = 1
  /\ Log[1].status = "fail"
  /\ Log[1].exit # call.entry
  /\ call.out.status = "fail"

\* the grammar aa | ab of the test suite
aa_ab ==
  ifElseP(attemptP(thenP(tokenP("a"), tokenP("a"))), thenP(tokenP("a"), tokenP("b")))

\* C2: attempt(p) leaves the caller's cursor as it was when p fails, whatever
\* p consumed, and where p ended when p succeeds; so ifElse(attempt(p), q) runs
\* q from the entry position whenever p fails, and aa | ab on `ab` gives token b.
C2_AttemptRestoresOnFailure ==
  /\ (call.parser.op = "attempt") =>
       /\ Len(Log) = 1
       /\ Log[1].entry = call.entry
       /\ (Log[1].status = "fail") => (call.out.status = "fail" /\ call.out.sp = call.entry
                                       /\ lexer.sp = call.entry)
       /\ (Log[1].status = "ok") => (call.out.status = "ok" /\ call.out.sp = Log[1].exit
                                     /\ lexer.sp = Log[1].exit)
  /\ (call.parser.op = "ifElse" /\ call.parser.ps[1].op = "attempt"
      /\ Log[1].status = "fail") =>
       /\ Len(Log) = 2
       /\ Log[2].role = "else"
       /\ Log[2].entry = call.entry
  /\ (call.parser = aa_ab /\ call.entry.future = <<"a", "b">>) =>
       /\ call.out.status = "ok"
       /\ call.out.val.tok.type = "b"
       /\ call.out.sp.future = <<>>

C2_Witness ==
  /\ call.parser.op = "attempt"
  /\ Log[1].status = "fail"
  /\ Log[1].exit # call.entry
  /\ call.out.sp = call.entry

\* C3: a failing token(type).parse leaves the caller's cursor at the pre-call
\* position, whatever made it fail.
C3_TokenNeverConsumesOnFailure ==
  (call.parser.op = "token" /\ call.out.status = "fail") =>
    (call.out.sp = call.entry /\ lexer.sp = call.entry)

C3_TokenFailureMovesCursor ==
  /\ call.parser.op = "token"
  /\ call.out.status = "fail"
  /\ call.out.sp # call.entry

\* C4: in many(p), the passes before the last one succeeded, each starting
\* where the previous one ended; when the last pass failed leaving the cursor
\* where the pass started, many succeeds with the results so far, in order; when
\* it failed after advancing the cursor, many fails with that failure.
C4_ManyStopsOrFails ==
  (call.parser.op = "many" /\ Len(Log) >= 1 /\ Log[Len(Log)].status = "fail") =>
    LET n == Len(Log)
        last == Log[n]
    IN /\ \A i \in 1..(n - 1) : Log[i].status = "ok"
       /\ Log[1].entry = call.entry
       /\ \A i \in 1..(n - 1) : Log[i + 1].entry = Log[i].exit
       /\ \A i \in 1..n : Log[i].parser = call.parser.ps[1]
       /\ (last.exit = last.entry) =>
            /\ call.out.status = "ok"
            /\ call.out.val = ListVal([i \in 1..(n - 1) |-> Log[i].val])
            /\ call.out.sp = last.entry
       /\ (last.exit # last.entry) =>
            /\ call.out.status = "fail"
            /\ call.out.err = last.err

C4_Witness ==
  /\ call.parser.op = "many"
  /\ Len(Log) >= 2
  /\ Log[Len(Log)].status = "fail"
  /\ Log[Len(Log)].exit # Log[Len(Log)].entry
  /\ call.out.status = "fail"

\* C5: every call of many(p).parse comes to an end.
C5_ManyTerminates == frame.active ~> ~frame.active

\* the loop of many(trivial(x)) after more passes than the source has characters
C5_ManyStillLooping ==
  /\ frame.active
  /\ frame.i > MaxIter
  /\ frame.log[Len(frame.log)].status = "ok"
  /\ frame.log[Len(frame.log)].exit = frame.log[Len(frame.log)].entry

\* C6: choices runs its branches in argument order, each from the entry
\* position; the first branch that succeeds ends the run: its result is
\* returned, its cursor becomes the caller's, and no later branch is run.
C6_ChoicesFirstSuccess ==
  (call.parser.op = "choices") =>
    LET n == Len(Log)
        ps == call.parser.ps
    IN /\ n >= 1 /\ n <= Len(ps)
       /\ \A i \in 1..n : /\ Log[i].role = "choice"
                          /\ Log[i].parser = ps[i]
                          /\ Log[i].entry = call.entry
       /\ \A i \in 1..(n - 1) : Log[i].status = "fail"
       /\ (Log[n].status = "fail") => n = Len(ps)
       /\ (Log[n].status = "ok") =>
            /\ call.out.status = "ok"
            /\ call.out.val = Log[n].val
            /\ call.out.sp = Log[n].exit
            /\ lexer.sp = Log[n].exit

C6_Witness ==
  /\ call.parser.op = "choices"
  /\ Len(Log) = 2
  /\ Len(call.parser.ps) = 3
  /\ Log[1].exit # call.entry
  /\ Log[2].status = "ok"
  /\ call.out.sp # call.entry

\* the branches of a failed choices whose cursor is furthest into the input
Furthest(lg) ==
  {i \in 1..Len(lg) : \A j \in 1..Len(lg) : Len(lg[i].exit.future) <= Len(lg[j].exit.future)}

\* C7: when every branch of choices fails, the thrown failure is that of the
\* one branch whose cursor is furthest into the input, or, when several branches
\* tie, is made of the failures of exactly the tied branches, in branch order.
C7_ChoicesFurthestFailures ==
  (call.parser.op = "choices" /\ \A i \in 1..Len(Log) : Log[i].status = "fail") =>
    LET far == Furthest(Log)
    IN /\ call.out.status = "fail"
       /\ call.out.sp = call.entry
       /\ (Cardinality(far) = 1) => call.out.err = Log[CHOOSE i \in far : TRUE].err
       /\ (Cardinality(far) > 1) =>
            /\ call.out.err.kind = "ParseFailures"
            /\ Leaves(call.out.err) = LeavesOfAll(ErrsAt(Log, 1, far))

C7_Witness ==
  /\ call.parser.op = "choices"
  /\ Len(Log) = 3
  /\ \A i \in 1..3 : Log[i].status = "fail"
  /\ Furthest(Log) = {2, 3}
  /\ call.out.err.kind = "ParseFailures"

C9_ParallelTakesLongerBranch ==
  (call.parser.op = "parallel" /\ Len(Log) = 2
   /\ Log[1].status = "ok" /\ Log[2].status = "ok"
   /\ Len(Log[1].exit.future) # Len(Log[2].exit.future)) =>
    LET w == IF Len(Log[1].exit.future) < Len(Log[2].exit.future) THEN 1 ELSE 2
    IN /\ call.out.status = "ok"
       /\ call.out.val = Log[w].val
       /\ call.out.sp = Log[w].exit

\* C10: p.expect(msg) replaces the message of p's failure by "expected msg"
\* when p failed without consuming input, and passes the failure through
\* unchanged when p failed after consuming input.
C10_ExpectOnlyWhenUnconsumed ==
  (call.parser.op = "expect" /\ Log[1].status = "fail") =>
    /\ call.out.status = "fail"
    /\ (Log[1].exit = call.entry) =>
         call.out.err = [Log[1].err EXCEPT !.msg = <<"expected ", call.parser.arg>>]
    /\ (Log[1].exit # call.entry) => call.out.err = Log[1].err

\* ------------------------------------------------ sequencing combinators
\* the session's lexer with its cursor at sp
At(sp) == [lexer EXCEPT !.sp = sp]

\* two parses settle the same way and leave the cursor at the same place
Same(r1, r2) ==
  /\ r1.status = r2.status
  /\ r1.val = r2.val
  /\ r1.err = r2.err
  /\ r1.sp = r2.sp

\* C11: p.eof() succeeds, with p's result, exactly when p succeeds and only
\* blanks and comments are left after p; it fails when other input is left.
C11_EofOnlyAtEndOfInput ==
  (call.parser.op = "expect" /\ call.parser = eofP(call.parser.ps[1].ps[1])) =>
    LET r == Parse(call.parser.ps[1].ps[1], At(call.entry))
        atEnd == r.status = "ok" /\ eof(skipWhites(lexer.ruleSet, r.sp))
    IN /\ (call.out.status = "ok") <=> atEnd
       /\ atEnd => call.out.val = r.val
       /\ (r.status = "ok" /\ ~atEnd) => call.out.status = "fail"

\* p.eof() succeeded although a character that is no token is left
C11_EofAcceptsInvalidRest ==
  /\ call.parser.op = "expect"
  /\ call.parser = eofP(call.parser.ps[1].ps[1])
  /\ call.out.status = "ok"
  /\ ~eof(skipWhites(lexer.ruleSet, call.out.sp))

\* C12: p.notFollowedBy(q) runs p and then q, q from where p ended on a
\* cursor of its own; when q succeeds it fails, when q fails with a
\* ParseFailure it succeeds with p's result, and either way the caller's
\* cursor is where p left it.
C12_NotFollowedByLooksAhead ==
  (call.parser.op = "notFollowedBy" /\ Log[1].status = "ok") =>
    /\ Len(Log) = 2
    /\ Log[1].parser = call.parser.ps[1] /\ Log[1].entry = call.entry
    /\ Log[2].parser = call.parser.ps[2] /\ Log[2].entry = Log[1].exit
    /\ (Log[2].status = "ok") => call.out.status = "fail"
    /\ (Log[2].status = "fail") => (call.out.status = "ok" /\ call.out.val = Log[1].val)
    /\ call.out.sp = Log[1].exit
    /\ lexer.sp = Log[1].exit

C12_Witness ==
  /\ call.parser.op = "notFollowedBy"
  /\ Len(Log) = 2
  /\ Log[2].status = "ok"
  /\ Log[2].exit # Log[2].entry
  /\ call.out.status = "fail"
  /\ lexer.sp = Log[1].exit

\* C15: (p.bind(f)).bind(g) and p.bind(x => f(x).bind(g)) settle the same
\* way and leave the cursor at the same place, and so do p.then(q) and
\* p.bind(_ => q).
C15_BindAssociative ==
  /\ (call.parser.op = "bind" /\ call.parser.ps[1].op = "bind") =>
       Same(call.out,
            Parse(bindP(call.parser.ps[1].ps[1], bindK(call.parser.ps[1].k, call.parser.k)),
                  At(call.entry)))
  /\ (call.parser.op = "bind" /\ call.parser.k.kind = "bind") =>
       Same(call.out,
            Parse(bindP(bindP(call.parser.ps[1], call.parser.k.ks[1]), call.parser.k.ks[2]),
                  At(call.entry)))
  /\ (call.parser.op = "then") =>
       Same(call.out,
            Parse(bindP(call.parser.ps[1], constK(call.parser.ps[2])), At(call.entry)))

C15_Witness ==
  /\ call.parser.op = "bind"
  /\ call.parser.ps[1].op = "bind"
  /\ Len(Log) = 2
  /\ Log[1].exit # call.entry
  /\ Log[2].status = "fail"
  /\ Log[2].exit # Log[2].entry

\* C16: trivial(v) succeeds with v where the cursor is, so trivial(v).bind(f)
\* settles as f(v) and p.bind(trivial) settles as p, each pair leaving the
\* cursor at the same place.
C16_TrivialIsUnit ==
  /\ (call.parser.op = "bind" /\ call.parser.ps[1].op = "trivial") =>
       /\ Log[1].status = "ok"
       /\ Log[1].val = call.parser.ps[1].v
       /\ Log[1].exit = call.entry
       /\ Same(call.out, Parse(Apply(call.parser.k, call.parser.ps[1].v), At(call.entry)))
  /\ (call.parser.op = "bind" /\ call.parser.k.kind = "trivial") =>
       Same(call.out, Parse(call.parser.ps[1], At(call.entry)))

C16_Witness ==
  /\ call.parser.op = "bind"
  /\ call.parser.k.kind = "trivial"
  /\ call.parser.ps[1].op = "token"
  /\ call.out.status = "ok"
  /\ call.out.sp.future # <<>>
  /\ Head(call.out.sp.future) = " "

RECURSIVE sequenced(_, _)
\* p1.bind(a => p2.bind(b => trivial([a, b]))) of two parsers, and for three
\* p1.bind(a => p2.bind(b => p3.bind(c => trivial([[a, b], c]))))
sequenced(parsers, n) ==
  IF n = 2 THEN bindP(parsers[1], seqK(parsers[2]))
  ELSE bindP(sequenced(parsers, n - 1), seqK(parsers[n]))

\* the results of a sequenced run as the one array combineMany gives
Flat(v, n) == IF n = 2 THEN v ELSE ListVal(Append(v.items[1].items, v.items[2]))

\* C13: when the arguments of combine2 / combineMany succeed one after the
\* other, each from where the one before it ended, the combined parser gives
\* their results and leaves the cursor where the last one ended.
C13_CombineIsSequential ==
  (call.parser.op = "combine") =>
    LET n == Len(call.parser.ps)
        r == Parse(sequenced(call.parser.ps, n), At(call.entry))
    IN (r.status = "ok") =>
         /\ call.out.status = "ok"
         /\ call.out.val = Flat(r.val, n)
         /\ call.out.sp = r.sp
         /\ \A i \in 1..(n - 1) : Log[i + 1].entry = Log[i].exit

\* the second argument was started before the first one had ended
C13_CombineInterleaved ==
  /\ call.parser.op = "combine"
  /\ Len(Log) >= 2
  /\ Log[1].status = "ok"
  /\ Log[2].entry # Log[1].exit

\* C14: when an argument of combine2 / combineMany fails with a
\* ParseFailure, the combined parse fails with a ParseFailure, and an ifElse
\* around it goes on to its else branch.
C14_CombineFailureRecoverable ==
  /\ (call.parser.op = "combine" /\ \E i \in 1..Len(Log) : Log[i].status = "fail") =>
       call.out.status = "fail"
  /\ (call.parser.op = "ifElse" /\ call.parser.ps[1].op = "combine"
      /\ Log[1].exit = call.entry /\ Log[1].status # "ok") =>
       Len(Log) = 2

\* a combined parse whose argument failed and whose promise stays pending
C14_CombinePending ==
  /\ call.parser.op = "combine"
  /\ \E i \in 1..Len(Log) : Log[i].status = "fail"
  /\ call.out.status = "pending"

\* ------------------------------------------------------------ the lexer
\* C17: a string written between double quotes, with its special characters
\* escaped, is read as one string token whose literal is the string that was
\* written, and the cursor is left just after the closing quote.
C17_StringRoundTrip ==
  \A d \in Decoded, style \in Styles, after \in Afters :
    (call.parser = anyTokenP /\ lexer.ruleSet = RuleSetString
     /\ call.entry.future = Literal(d, style) \o after) =>
       /\ call.out.status = "ok"
       /\ call.out.val.tok.type = "string"
       /\ call.out.val.tok.literal = d
       /\ call.out.sp.future = after

\* the literal "\n" read as a line feed followed by the letter n
C17_EscapeLetterKept ==
  /\ call.parser = anyTokenP
  /\ call.entry.future = Literal(<<"\n">>, "short")
  /\ call.out.status = "ok"
  /\ call.out.val.tok.literal = <<"\n", "n">>

\* the literal "\x41" refused: the loop over the digits ends only by a throw
C17_HexEscapeThrows ==
  /\ call.parser = anyTokenP
  /\ call.entry.future = Literal(<<"A">>, "hex")
  /\ call.out.status = "fail"
  /\ call.out.err.msg = <<"invalid ", "hexadecimal", " escape character">>

\* the lengths of the prefixes of s that are numbers of the rule set
NumberEnds(rs, s) ==
  UNION {{Match(rs.dynamicGuard[i].pat, s, 0)[j] :
            j \in 1..Len(Match(rs.dynamicGuard[i].pat, s, 0))} :
         i \in {k \in 1..Len(rs.dynamicGuard) : rs.dynamicGuard[k].tk # TK_NUMBER_NOFOLLOW}}

\* s starts with a number, and a letter follows the longest such number
LetterFollowsNumber(rs, s) ==
  \E n \in NumberEnds(rs, s) :
    /\ \A m \in NumberEnds(rs, s) : m <= n
    /\ n < Len(s)
    /\ s[n + 1] \in Letters

\* C18: where a letter follows a number, next() gives no token: it throws the
\* ParseFailure `missing separators between a number and indistinguishable
\* stuff`, placed at the first character of the number.
C18_NumberNoFollow ==
  \A rs \in {RuleSetInteger, RuleSetNumbers} :
    (call.parser = anyTokenP /\ lexer.ruleSet = rs
     /\ LetterFollowsNumber(rs, call.entry.future)) =>
       /\ call.out.status = "fail"
       /\ call.out.err.kind = "ParseFailure"
       /\ call.out.err.msg[3] =
            "': missing separators between a number and indistinguishable stuff"
       /\ call.out.err.line = call.entry.line
       /\ call.out.err.column = call.entry.column

\* the float 1.1 given as a token although the letter e follows it
C18_FloatBeforeLetter ==
  /\ call.parser = anyTokenP
  /\ call.entry.future = <<"1", ".", "1", "e">>
  /\ call.out.status = "ok"
  /\ call.out.val.tok.type = "float"
  /\ call.out.val.tok.literal = <<"1", ".", "1">>

\* the begin markers less the end markers among the first k pieces
Depth(pieces, k) ==
  Cardinality({i \in 1..k : pieces[i] = CommentBegin})
  - Cardinality({i \in 1..k : pieces[i] = CommentEnd})

\* the number of characters of the comment that starts the text: with
\* nesting it ends at the first end marker with which as many end markers as
\* begin markers were read, without nesting at the first end marker that the
\* characters after the begin marker hold
Closings(pieces, nested) ==
  IF nested
  THEN {Len(Flatten(Take(pieces, k))) :
          k \in {i \in 2..Len(pieces) :
                   /\ pieces[i] = CommentEnd
                   /\ Depth(pieces, i) = 0
                   /\ \A j \in 1..(i - 1) : Depth(pieces, j) > 0}}
  ELSE {n \in (Len(CommentBegin) + Len(CommentEnd))..Len(Flatten(pieces)) :
          /\ SubSeq(Flatten(pieces), n - 1, n) = CommentEnd
          /\ \A m \in (Len(CommentBegin) + Len(CommentEnd))..(n - 1) :
               SubSeq(Flatten(pieces), m - 1, m) # CommentEnd}

\* the cursor that is n characters after sp
After(sp, n) == [sp |-> advance(sp, n).sp, ruleSet |-> lexer.ruleSet]

\* C19: a block comment that starts the source ends at the end marker that
\* brings the depth back to 0 when comments nest, and at the first end marker
\* when they do not: the token read is the one read from just after that
\* marker, and the end of the input is met when nothing but blanks and
\* comments follows it.
C19_CommentDepth ==
  (call.parser = anyTokenP /\ lexer.ruleSet \in {RuleSetNested, RuleSetFlat}) =>
    \A ps \in CommentTexts :
      call.entry.future = Flatten(ps) =>
       \A n \in Closings(ps, lexer.ruleSet.comment.nested.nested) :
         IF next(lexer.ruleSet, After(call.entry, n).sp).kind = "EOF"
         THEN /\ call.out.status = "fail"
              /\ call.out.err.msg = <<"unexpected end of file, expected a token">>
         ELSE call.out = anyToken(After(call.entry, n))

\* /* a /* b */ c */1 read as the integer 1 when comments nest
C19_Witness ==
  /\ call.parser = anyTokenP
  /\ lexer.ruleSet = RuleSetNested
  /\ call.entry.future = Flatten(NestedExample)
  /\ Closings(NestedExample, TRUE) = {17}
  /\ call.out.status = "ok"
  /\ call.out.val.tok.type = "integer"
  /\ call.out.val.tok.literal = <<"1">>

\* --------------------------------------------------------------- chains
RECURSIVE ValuesOf(_, _)
\* the results of the runs of `role` that succeeded, in the order of the log
ValuesOf(lg, role) ==
  IF lg = <<>> THEN <<>>
  ELSE (IF Head(lg).role = role /\ Head(lg).status = "ok" THEN <<Head(lg).val>> ELSE <<>>)
       \o ValuesOf(Tail(lg), role)

RECURSIVE FoldLeft(_, _, _)
\* f(n-1)(... f2(f1(x1, x2), x3) ..., xn)
FoldLeft(xs, fs, n) ==
  IF n = 1 THEN xs[1] ELSE Call2(fs[n - 1], FoldLeft(xs, fs, n - 1), xs[n])

RECURSIVE FoldRight(_, _, _)
\* f1(x1, f2(x2, ... f(n-1)(x(n-1), xn) ...)), from operand i on
FoldRight(xs, fs, i) ==
  IF i = Len(xs) THEN xs[i] ELSE Call2(fs[i], xs[i], FoldRight(xs, fs, i + 1))

RECURSIVE Numbers(_)
\* the numbers of a text in which blanks separate the numbers
Numbers(pieces) ==
  IF pieces = <<>> THEN <<>>
  ELSE (IF Head(pieces) = <<" ">> THEN <<>> ELSE <<NumVal(parseIntOf(Head(pieces)))>>)
       \o Numbers(Tail(pieces))

\* texts of numbers with one blank between them
Spaced(pieces) ==
  /\ pieces # <<>>
  /\ \A i \in 1..Len(pieces) : (pieces[i] = <<" ">>) <=> (i % 2 = 0)
  /\ \A i \in 1..Len(pieces) : pieces[i] # <<"-">>
  /\ Len(pieces) % 2 = 1

\* C20: chainLeftMore(expr, op) gives the operands that expr read, folded to
\* the left with the functions that op gave between them, and chainRightMore
\* gives them folded to the right; for numbers separated by blanks and an
\* operator that reads nothing, the operands are the numbers of the source.
C20_ChainFolds ==
  (call.parser.op \in {"chainLeftMore", "chainRightMore"} /\ Settled
   /\ Log[1].status = "ok") =>
     LET xs == ValuesOf(Log, "expr")
         fs == ValuesOf(Log, "operator")
     IN /\ call.out.status = "ok"
        /\ Len(fs) >= Len(xs) - 1
        /\ call.out.val = IF call.parser.op = "chainLeftMore"
                          THEN FoldLeft(xs, fs, Len(xs)) ELSE FoldRight(xs, fs, 1)
        /\ \A ps \in ChainTexts :
             (Spaced(ps) /\ call.entry.future = Flatten(ps)
              /\ call.parser.ps[2].op = "trivial") => xs = Numbers(ps)

\* 10 3 4 with subtraction: (10 - 3) - 4 = 3
C20_Witness ==
  /\ call.parser = chainLeftMoreP(integerP, trivialOf(ConstVal("sub")))
  /\ call.entry.future = <<"1", "0", " ", "3", " ", "4">>
  /\ call.out.status = "ok"
  /\ call.out.val = NumVal(3)

\* ------------------------------------------------------- lexer objects
\* the tokens allTokens() would return from cursor sp
TokensFrom(rs, sp) == allTokensLoop(rs, sp, <<>>).tokens

\* C21: Lexer.clone() yields a lexer whose cursor has the remaining input,
\* line and column of the original's and leaves the original's alone, so
\* that both have the same token sequence; and next(), allTokens() or
\* advance() on one lexer never changes the cursor of another one.
C21_CloneIndependent ==
  [][/\ heap'.ret.op = "clone" =>
          /\ Len(heap'.lexers) = Len(heap.lexers) + 1
          /\ CursorOf(heap', Len(heap'.lexers)) = CursorOf(heap, heap'.ret.on)
          /\ TokensFrom(heap'.lexers[Len(heap'.lexers)].ruleSet,
                        CursorOf(heap', Len(heap'.lexers)))
             = TokensFrom(heap.lexers[heap'.ret.on].ruleSet, CursorOf(heap, heap'.ret.on))
          /\ \A j \in 1..Len(heap.lexers) : CursorOf(heap', j) = CursorOf(heap, j)
     /\ heap'.ret.op \in {"next", "allTokens", "advance"} =>
          \A j \in 1..Len(heap.lexers) :
            j # heap'.ret.on => CursorOf(heap', j) = CursorOf(heap, j)
    ]_vars

\* a clone made on the second line of the source has read its tokens to the
\* end, and the original still has them to read
C21_Witness ==
  /\ Len(heap.lexers) = 2
  /\ heap.ret.op = "allTokens"
  /\ heap.ret.on = 2
  /\ heap.ret.tokens # <<>>
  /\ heap.ret.tokens[1].line = 2
  /\ CursorOf(heap, 2).future = <<>>
  /\ CursorOf(heap, 1).line = 2
  /\ TokensFrom(heap.lexers[1].ruleSet, CursorOf(heap, 1)) = heap.ret.tokens

\* the line breaks among the first k characters of text
Breaks(text, k) == {p \in 1..k : text[p] = "\n"}

\* the 1-based line and column of the character after the first k of text
LineOf(text, k) == 1 + Cardinality(Breaks(text, k))

ColumnOf(text, k) ==
  IF Breaks(text, k) = {} THEN k + 1
  ELSE k - (CHOOSE p \in Breaks(text, k) : \A q \in Breaks(text, k) : q <= p) + 1

\* C22: every SourcePosition has line >= 1 and column >= 1, and the cursor
\* of every lexer holds a suffix of its source with the '\r' dropped,
\* together with the 1-based line and column of the first character of that
\* suffix: a new position is at line 1, column 1, a step over '\n' starts
\* the next line at column 1, and any other step adds 1 to the column.
C22_LineColumn ==
  /\ \A a \in 1..Len(heap.positions) :
       heap.positions[a].line >= 1 /\ heap.positions[a].column >= 1
  /\ \A i \in 1..Len(heap.lexers) :
       LET text == cleanCRLF(heap.sources[i])
           k == Len(text) - Len(CursorOf(heap, i).future)
       IN /\ k >= 0
          /\ CursorOf(heap, i).future = Drop(text, k)
          /\ CursorOf(heap, i).line = LineOf(text, k)
          /\ CursorOf(heap, i).column = ColumnOf(text, k)

\* the source '\r\na' read to its end: the cursor is at line 2, column 2
C22_Witness ==
  /\ heap.sources[1] = <<"\r", "\n", "a">>
  /\ CursorOf(heap, 1).future = <<>>
  /\ CursorOf(heap, 1).line = 2
  /\ CursorOf(heap, 1).column = 2
  /\ heap.ret.op = "advance"

\* the number of characters lexer i has still to read
Left(i) == Len(CursorOf(heap, i).future)

\* lexers i and j read the same source under the same name
SameSource(i, j) ==
  /\ heap.sources[i] = heap.sources[j]
  /\ CursorOf(heap, i).name = CursorOf(heap, j).name

\* the answer is `irrelevant` where the claim says so
IrrelevantAsStated(a, b) ==
  (a.name # b.name \/ (~Contains(a.future, b.future) /\ ~Contains(b.future, a.future)))
  => heap.ret.answer = "irrelevant"

\* C23 as stated: a.compareTo(b) is `equal` for the same place of the same
\* source, `forward` when a is behind and b is further into the input,
\* `behind` when a is further than b, and `irrelevant` when the names
\* differ or neither remaining input contains the other.
C23_ForwardWhenBehind ==
  heap.ret.op = "compareTo" =>
    /\ SameSource(heap.ret.on, heap.ret.other) =>
         heap.ret.answer =
           IF Left(heap.ret.on) = Left(heap.ret.other) THEN "equal"
           ELSE IF Left(heap.ret.on) > Left(heap.ret.other) THEN "forward"
           ELSE "behind"
    /\ IrrelevantAsStated(CursorOf(heap, heap.ret.on), CursorOf(heap, heap.ret.other))

\* C23, amended: a.compareTo(b) is `equal` for the same place of the same
\* source, `forward` when a is further into the input than b, `behind` when
\* b is further than a, and `irrelevant` when the names differ or neither
\* remaining input contains the other.
C23_CompareTo ==
  heap.ret.op = "compareTo" =>
    /\ SameSource(heap.ret.on, heap.ret.other) =>
         heap.ret.answer =
           IF Left(heap.ret.on) = Left(heap.ret.other) THEN "equal"
           ELSE IF Left(heap.ret.on) < Left(heap.ret.other) THEN "forward"
           ELSE "behind"
    /\ (CursorOf(heap, heap.ret.on).name # CursorOf(heap, heap.ret.other).name
        \/ (~Contains(CursorOf(heap, heap.ret.on).future,
                      CursorOf(heap, heap.ret.other).future)
            /\ ~Contains(CursorOf(heap, heap.ret.other).future,
                         CursorOf(heap, heap.ret.on).future)))
       => heap.ret.answer = "irrelevant"

\* a clone that has read less than the original is compared with it
C23_Witness ==
  /\ heap.ret.op = "compareTo"
  /\ heap.ret.on = 2
  /\ heap.ret.other = 1
  /\ SameSource(1, 2)
  /\ Left(2) > Left(1)
  /\ CursorOf(heap, 1).line = 2
  /\ heap.ret.answer = "behind"

\* -------------------------------------------------------- failure objects
RECURSIVE LeavesAt(_, _, _)
RECURSIVE LeavesAtAll(_, _, _)
\* the addresses of the single failures found under the object at a, with
\* their repetitions; 0 stands for an object that is found under itself
LeavesAt(fs, a, fuel) ==
  IF fs[a].kind # "ParseFailures" THEN <<a>>
  ELSE IF fuel = 0 THEN <<0>>
  ELSE LeavesAtAll(fs, fs[a].pfs, fuel - 1)

LeavesAtAll(fs, as, fuel) ==
  IF as = <<>> THEN <<>>
  ELSE LeavesAt(fs, Head(as), fuel) \o LeavesAtAll(fs, Tail(as), fuel)

\* the single failures the object at a holds
Held(fs, a) == LeavesAt(fs, a, Len(fs))

\* s and t list the same failures the same number of times
SameBag(s, t) ==
  \A x \in {s[k] : k \in DOMAIN s} \cup {t[k] : k \in DOMAIN t} :
    Cardinality({k \in DOMAIN s : s[k] = x}) = Cardinality({k \in DOMAIN t : t[k] = x})

\* (a.combine(b)).combine(c) and a.combine(b.combine(c)), each evaluated in
\* heap fs, hold the same failures
Associative(fs, a, b, c) ==
  LET ab == FailureCombine(fs, a, b)
      left == FailureCombine(ab.failures, ab.result, c)
      bc == FailureCombine(fs, b, c)
      right == FailureCombine(bc.failures, a, bc.result)
  IN SameBag(Held(left.failures, left.result), Held(right.failures, right.result))

\* C24: the single failures held by a.combine(b) are those of a together
\* with those of b, duplicates kept, and (a.combine(b)).combine(c) holds
\* the same failures as a.combine(b.combine(c)), the same number of times,
\* for single and composite a, b and c.
C24_CombineAssociative ==
  [][/\ heap'.ret.op = "combine" =>
          SameBag(Held(heap'.failures, heap'.ret.result),
                  Held(heap.failures, heap'.ret.on) \o Held(heap.failures, heap'.ret.other))
     /\ \A a \in DOMAIN heap.failures, b \in DOMAIN heap.failures,
           c \in DOMAIN heap.failures : Associative(heap.failures, a, b, c)
    ]_vars

\* ----------------------------------------------------- the skipSpaces option
\* C25: ruleSet.skipSpaces is true when the option is omitted and is the
\* configured value when it is given; and with skipSpaces: false next()
\* does not skip a leading blank or line break: no rule of the rule set
\* starts with one, so next() fails with `invalid token` at that character
\* and leaves the cursor there.
C25_SkipSpacesOption ==
  [][/\ heap.lexers[1].ruleSet.skipSpaces = (heap.preset # "false")
     /\ (/\ heap'.ret.op = "next"
         /\ heap.preset = "false"
         /\ ~eof(CursorOf(heap, 1))
         /\ Head(CursorOf(heap, 1).future) \in {" ", "\n"})
        => /\ heap'.ret.kind = "throw"
           /\ heap'.ret.err = ParseFailure(<<"invalid token">>, CursorOf(heap, 1).line,
                                           CursorOf(heap, 1).column)
           /\ CursorOf(heap', 1) = CursorOf(heap, 1)
    ]_vars

\* with skipSpaces: false the token after a leading blank is returned
C25_BlankSkipped ==
  /\ heap.preset = "false"
  /\ heap.sources[1] = <<" ", "a">>
  /\ heap.ret.op = "next"
  /\ heap.ret.kind = "token"
  /\ heap.ret.tok = Token("a", <<"a">>, 1, 2)

\* ------------------------------------------------------------ ambiguities
\* the Error parallel rejects with when both of its branches succeed
IsAmbiguity(e) ==
  e.kind = "Error" /\ e.msg = <<"syntax ambiguity found in parallel parser">>

\* C26: when a parser run by ifElse, many, choices, attempt, optional,
\* chainLeftMore or chainRightMore rejects with the ambiguity error of
\* parallel, the combinator rejects with that error: it runs no other
\* branch, pass or operand after it and does not succeed.
C26_AmbiguityPropagates ==
  (call.out.status # "none" /\ \E i \in 1..Len(Log) : IsAmbiguity(Log[i].err))
  => /\ call.out.status = "error"
     /\ IsAmbiguity(call.out.err)
     /\ IsAmbiguity(Log[Len(Log)].err)
     /\ \A i \in 1..(Len(Log) - 1) : ~IsAmbiguity(Log[i].err)

\* optional(parallel(trivial, trivial)) on an input it does not consume:
\* the ambiguity is thrown although the other branch would succeed
C26_Witness ==
  /\ call.parser = optionalP(parallelP(trivialP("x"), trivialP("x")))
  /\ Len(Log) = 1
  /\ IsAmbiguity(Log[1].err)
  /\ Log[1].exit = Log[1].entry
  /\ call.out.status = "error"
  /\ lexer.sp.future # <<>>

\* -------------------------------------------------------- separated lists
RECURSIVE ListFrom(_, _, _, _)
\* the list that starts with items and goes on at cursor sp: every
\* separator that is followed by one more item and that item are taken,
\* and then one separator if there is one
ListFrom(one, separator, lx, items) ==
  With(Parse(separator, lx), LAMBDA s :
    IF s.status # "ok" THEN [sp |-> lx.sp, items |-> items]
    ELSE With(Parse(one, [lx EXCEPT !.sp = s.sp]), LAMBDA x :
           IF x.status # "ok" THEN [sp |-> s.sp, items |-> items]
           ELSE ListFrom(one, separator, [lx EXCEPT !.sp = x.sp], Append(items, x.val))))

\* C27: moreSeparatedOptionalEnd(p, sep), where a first p is parsed,
\* succeeds with the items that are separated by sep; a separator that no p
\* follows is consumed, once, and the cursor ends just after it, and with
\* no such separator the cursor ends just after the last item.
C27_OptionalEnd ==
  (call.parser.op = "bind" /\ call.out.status # "none") =>
    LET one == tokenP("a")
        separator == call.parser.k.ps[1]
        first == Parse(one, [lexer EXCEPT !.sp = call.entry])
        list == ListFrom(one, separator, [lexer EXCEPT !.sp = first.sp], <<first.val>>)
    IN first.status = "ok" =>
         /\ call.out.status = "ok"
         /\ call.out.val = ListVal(list.items)
         /\ call.out.sp = list.sp

\* the list 'a' followed by a blank and a character no rule accepts fails
C27_ListFails ==
  /\ call.parser = moreSeparatedOptionalEndP(tokenP("a"), tokenP(","))
  /\ call.entry.future = <<"a", " ", "?">>
  /\ call.out.status = "fail"
  /\ call.out.err.msg = <<"invalid token">>
  /\ call.out.sp.future = <<"?">>

\* ---------------------------------------------------------- the escapes
\* the number of digits of an escape with digits, and their radix
WidthOf(c) == CASE c = "o" -> 3 [] c = "x" -> 2 [] c = "u" -> 4 [] OTHER -> 6

RadixOf(c) == IF c = "o" THEN 8 ELSE 16

ValidDigit(c, x) == IF c = "o" THEN isOctal(x) ELSE isHexadecimal(x)

\* C28: inside an escaping string \o reads exactly 3 octal digits, \x exactly
\* 2 hex digits and \u exactly 4 hex digits; the character of that value is
\* added, and what follows the last digit is ordinary content of the string,
\* or its closing quote.
C28_FixedWidthEscapes ==
  \A c \in {"o", "x", "u"}, ds \in EscapeDigits :
    (/\ call.parser = anyTokenP
     /\ Len(ds) >= WidthOf(c)
     /\ \A k \in 1..WidthOf(c) : ValidDigit(c, ds[k])
     /\ call.entry.future = EscapeOpen \o <<c>> \o ds \o <<"\"">>) =>
       /\ call.out.status = "ok"
       /\ call.out.val.tok.type = "string"
       /\ call.out.val.tok.literal =
            <<fromCharCode(parseInt(Take(ds, WidthOf(c)), RadixOf(c)))>>
            \o Drop(ds, WidthOf(c))
       /\ call.out.sp.future = <<>>

\* "\o101" refused at its closing quote: the digits are read until a
\* character that is no digit
C28_DigitsNeverEnd ==
  /\ call.parser = anyTokenP
  /\ call.entry.future = EscapeOpen \o <<"o", "1", "4", "1", "\"">>
  /\ call.out.status = "fail"
  /\ call.out.err = ParseFailure(<<"invalid ", "octal", " escape character">>, 1, 7)

\* the source ends inside the escape: after the backslash, after the letter
\* of a family with digits or after some of its digits, or after the first
\* digit of a decimal escape
EndsInEscape(src) ==
  \/ src = EscapeOpen
  \/ \E c \in {"o", "x", "u", "w"}, ds \in EscapeDigits :
       /\ src = EscapeOpen \o <<c>> \o ds
       /\ Len(ds) < WidthOf(c)
       /\ \A k \in 1..Len(ds) : ValidDigit(c, ds[k])
  \/ src = EscapeOpen \o <<"1">>

\* the columns of the characters of the escape that make it malformed: a
\* letter that is no escape, or the first character that is no digit where
\* a digit of the family is due
Offending(src) ==
  (IF Len(src) >= 3 /\ src[3] = "q" THEN {3} ELSE {})
  \cup {k \in 4..Len(src) :
          /\ src[3] \in {"o", "x", "u", "w"}
          /\ k - 3 <= WidthOf(src[3])
          /\ ~ValidDigit(src[3], src[k])
          /\ \A j \in 4..(k - 1) : ValidDigit(src[3], src[j])}

\* C29: where the input ends inside an escape, of every family, next()
\* throws UnexpectedEOF; a malformed escape throws a ParseFailure placed at
\* the offending character; nothing else than these two is thrown by next().
C29_EscapeErrors ==
  (call.parser = anyTokenP /\ call.entry.future \in EscapeSources) =>
    /\ EndsInEscape(call.entry.future) => call.out.err.kind = "UnexpectedEOF"
    /\ \A k \in Offending(call.entry.future) :
         /\ call.out.err.kind = "ParseFailure"
         /\ call.out.err.line = 1
         /\ call.out.err.column = k
    /\ call.out.status # "ok" => call.out.err.kind \in {"ParseFailure", "UnexpectedEOF"}

\* "\1 at the end of the input: a RangeError
C29_DecimalAtEnd ==
  /\ call.parser = anyTokenP
  /\ call.entry.future = EscapeOpen \o <<"1">>
  /\ call.out.err = OtherError("RangeError", <<"lexer: getting char while EOF">>)

\* ---------------------------------------------------------- the integers
\* C30: with the integer preset, a well-formed literal of every family
\* (decimal, hex, octal, binary) that is followed by whitespace, punctuation
\* or the end of the input is read as one integer token whose literal is the
\* whole literal; the guard of numbers with a forbidden follower stays out.
C30_IntegerLiterals ==
  \A lit \in IntegerLiterals, f \in Separating :
    (call.parser = anyTokenP /\ lexer.ruleSet = RuleSetInteger
     /\ call.entry.future = lit \o f) =>
       /\ call.out.status = "ok"
       /\ call.out.val.tok.type = "integer"
       /\ call.out.val.tok.literal = lit
       /\ call.out.sp.future = f

\* 0x1F before a blank refused as a number with a forbidden follower
C30_HexRefused ==
  /\ call.parser = anyTokenP
  /\ lexer.ruleSet = RuleSetInteger
  /\ call.entry.future = <<"0", "x", "1", "F", " ">>
  /\ call.out.status = "fail"
  /\ call.out.err.kind = "ParseFailure"
  /\ call.out.err.line = 1
  /\ call.out.err.column = 1

\* ------------------------------------------------------ the static rules
\* the longest static key of the rule set that s starts with
LongestKey(rs, s) ==
  CHOOSE key \in {rs.staticGuard[i].key : i \in 1..Len(rs.staticGuard)} :
    /\ StartsWith(s, key)
    /\ \A i \in 1..Len(rs.staticGuard) :
         StartsWith(s, rs.staticGuard[i].key) => Len(rs.staticGuard[i].key) <= Len(key)

\* C31: where several static literals are prefixes of the rest of the input,
\* next() gives the token of the longest one, in whatever order the literals
\* were declared and whether or not a space follows the lexeme.
C31_LongestStatic ==
  (/\ call.parser = anyTokenP
   /\ lexer.ruleSet \in StaticRuleSets
   /\ StartsWith(call.entry.future, <<"=">>)) =>
     /\ call.out.status = "ok"
     /\ call.out.val.tok.literal = LongestKey(lexer.ruleSet, call.entry.future)
     /\ call.out.sp.future =
          Drop(call.entry.future, Len(LongestKey(lexer.ruleSet, call.entry.future)))

\* ==x read as the token = where = was declared first
C31_FirstDeclared ==
  /\ call.parser = anyTokenP
  /\ lexer.ruleSet = RuleSetShortFirst
  /\ call.entry.future = <<"=", "=", "x">>
  /\ call.out.status = "ok"
  /\ call.out.val.tok.literal = <<"=">>
  /\ call.out.sp.future = <<"=", "x">>

\* --------------------------------------------------- the quoted strings
\* the index of the first c in s, 0 if there is none
IndexOf(s, c) ==
  IF \E i \in 1..Len(s) : s[i] = c
  THEN CHOOSE i \in 1..Len(s) : s[i] = c /\ \A j \in 1..(i - 1) : s[j] # c
  ELSE 0

\* the line and column of the character after the first k of text, where
\* the text starts at the cursor sp
LineFrom(sp, text, k) == sp.line + LineOf(text, k) - 1

ColumnFrom(sp, text, k) ==
  IF Breaks(text, k) = {} THEN sp.column + k ELSE ColumnOf(text, k)

\* the first n characters of the body are read one by one: the string does
\* not decode escapes, or there is no backslash among them
Plain(quotation, body, n) ==
  ~quotation.escape \/ \A i \in 1..n : body[i] # "\\"

\* C32: a string whose stop delimiter is not found before the end of the
\* input makes next() throw UnexpectedEOF; a line break in the body of a
\* string that is not multiline makes it throw a ParseFailure placed at the
\* line break; otherwise the token has the line and column of the opening
\* delimiter and the cursor is left just after the stop delimiter.
C32_QuotedTermination ==
  \A lead \in QuoteLeads, body \in QuoteBodies :
    (/\ call.parser = anyTokenP
     /\ lexer.ruleSet \in QuoteRuleSets
     /\ call.entry.future = lead \o <<"\"">> \o body) =>
       LET quotation == lexer.ruleSet.quotes[1]
           text == lead \o <<"\"">> \o body
           open == Len(lead)
           stop == IndexOf(body, "\"")
           break == IndexOf(body, "\n")
           broken == ~quotation.multiline /\ break # 0 /\ (stop = 0 \/ break < stop)
       IN /\ (stop = 0 /\ ~broken) =>
               /\ call.out.status = "fail"
               /\ call.out.err.kind = "UnexpectedEOF"
          /\ (broken /\ Plain(quotation, body, break)) =>
               /\ call.out.status = "fail"
               /\ call.out.err.kind = "ParseFailure"
               /\ call.out.err.line = LineFrom(call.entry, text, open + break)
               /\ call.out.err.column = ColumnFrom(call.entry, text, open + break)
          /\ (stop # 0 /\ ~broken /\ Plain(quotation, body, stop)) =>
               /\ call.out.status = "ok"
               /\ call.out.val.tok.type = "string"
               /\ call.out.val.tok.literal = Take(body, stop - 1)
               /\ call.out.val.tok.line = LineFrom(call.entry, text, open)
               /\ call.out.val.tok.column = ColumnFrom(call.entry, text, open)
               /\ call.out.sp.future = Drop(body, stop)

\* the source "\1 of an escaping string: a RangeError where the input ends
C32_DecimalEscapeAtEnd ==
  /\ call.parser = anyTokenP
  /\ lexer.ruleSet = RuleSetString
  /\ call.entry.future = <<"\"", "\\", "1">>
  /\ call.out.status = "error"
  /\ call.out.err.kind = "RangeError"

\* ---------------------------------------------- lists without an end mark
RECURSIVE Dangling(_, _, _)
\* from the cursor of lx on, a separator is parsed that no item follows
Dangling(one, separator, lx) ==
  With(Parse(separator, lx), LAMBDA s :
    /\ s.status = "ok"
    /\ With(Parse(one, [lx EXCEPT !.sp = s.sp]), LAMBDA x :
         IF x.status = "ok" THEN Dangling(one, separator, [lx EXCEPT !.sp = x.sp])
         ELSE x.status = "fail"))

\* C33: moreSeparated(p, sep) gives what p followed by many(sep then p)
\* gives: the first item and then the items of the pairs, in the order of
\* the input and at least one of them, with the same cursor, and the same
\* failure where one of the two fails; where a separator is parsed and no p
\* follows it, moreSeparated fails.
C33_MoreSeparated ==
  \A separator \in Separators :
    (call.parser = moreSeparatedP(tokenP("a"), separator)) =>
      LET one == tokenP("a")
          first == Parse(one, [lexer EXCEPT !.sp = call.entry])
          pairs == Parse(manyP(thenP(separator, one)), [lexer EXCEPT !.sp = first.sp])
      IN /\ first.status # "ok" =>
              /\ call.out.status = first.status
              /\ call.out.err = first.err
              /\ call.out.sp = first.sp
         /\ (first.status = "ok" /\ pairs.status # "ok") =>
              /\ call.out.status = pairs.status
              /\ call.out.err = pairs.err
              /\ call.out.sp = pairs.sp
         /\ (first.status = "ok" /\ pairs.status = "ok") =>
              /\ call.out.status = "ok"
              /\ call.out.val = ListVal(<<first.val>> \o pairs.val.items)
              /\ call.out.sp = pairs.sp
         /\ call.out.status = "ok" =>
              /\ call.out.val.items # <<>>
              /\ \A i \in 1..Len(call.out.val.items) :
                   /\ call.out.val.items[i].tok.type = "a"
                   /\ \A j \in 1..(i - 1) :
                        call.out.val.items[j].tok.column < call.out.val.items[i].tok.column
         /\ (first.status = "ok"
             /\ Dangling(one, separator, [lexer EXCEPT !.sp = first.sp])) =>
              call.out.status = "fail"

\* a,a, with the string ',' as the separator: two items are parsed, the
\* last separator has nothing after it, and the list fails
C33_Witness ==
  /\ call.parser = moreSeparatedP(tokenP("a"), stringP(","))
  /\ call.entry.future = <<"a", ",", "a", ",">>
  /\ call.out.status = "fail"
  /\ call.out.sp.future = <<>>

\* ----------------------------------------------------------- the attempts
\* two outcomes with the same result or failure and the same cursor
SameEffect(r, t) ==
  /\ r.status = t.status
  /\ r.val = t.val
  /\ r.err = t.err
  /\ r.sp = t.sp

\* C34: attempt(p) and test(p).then(p), run from the same cursor, end the
\* same way: the same result or the same failure, and the caller's cursor at
\* the same place.
C34_AttemptIsTestThen ==
  /\ call.parser.op = "attempt" =>
       SameEffect(call.out,
                  Parse(thenP(testP(call.parser.ps[1]), call.parser.ps[1]),
                        [lexer EXCEPT !.sp = call.entry]))
  /\ (call.parser.op = "then" /\ call.parser.ps[1].op = "test") =>
       SameEffect(call.out, Parse(attemptP(call.parser.ps[2]), [lexer EXCEPT !.sp = call.entry]))

\* attempt(a then b) on 'a a': the first token is read on the clone, the
\* second fails, and the caller's cursor has not moved
C34_Witness ==
  /\ call.parser = attemptP(thenP(tokenP("a"), tokenP("b")))
  /\ call.entry.future = <<"a", " ", "a">>
  /\ call.out.status = "fail"
  /\ call.out.sp = call.entry
  /\ call.out.log[1].exit.future = <<" ", "a">>

\* ------------------------------------------------------------- the Int32
\* the number is an integer of -2^31 .. 2^31 - 1
Valid32(value) ==
  /\ value.sort = "integer"
  /\ \/ value.w2 = 0 /\ value.w1 < HalfLimb
     \/ value.w2 = 0 - 1 /\ value.w1 >= HalfLimb

\* C35: Int32.take(v) returns an Int32 that holds v exactly when v is a
\* 32-bit signed integer, and throws for every other number; Int32.test(v)
\* is true exactly for those integers.
C35_Int32 ==
  /\ heap.ret.op = "take" =>
       IF Valid32(heap.ret.value)
       THEN heap.ret.kind = "return" /\ heap.ret.int32 = heap.ret.value
       ELSE heap.ret.kind = "throw"
  /\ heap.ret.op = "test" => (heap.ret.answer = "true" <=> Valid32(heap.ret.value))

\* Int32.take(0) throws, and Int32.take(2^32) returns an Int32
C35_TakeInverted ==
  /\ heap.ret.op = "take"
  /\ \/ heap.ret.value = Number(0, 0, 0, "integer") /\ heap.ret.kind = "throw"
     \/ heap.ret.value = Number(1, 0, 0, "integer") /\ heap.ret.kind = "return"


\* ------------------------------------------------------------- the cursor
\* position q is at or after position p of the same source: what is left
\* at q is the end of what is left at p
AtOrAfter(q, p) ==
  /\ q.name = p.name
  /\ Len(q.future) <= Len(p.future)
  /\ q.future = Drop(p.future, Len(p.future) - Len(q.future))

\* C36: no call of a combinator moves the caller's cursor backwards: after
\* the call, ended by a result or by a failure, and after every pass of the
\* loop of many, the cursor is at or after the place where it was, on the
\* same source.
C36_NeverBackwards ==
  [][AtOrAfter(lexer'.sp, lexer.sp)]_vars

\* parallel(a, a then b) on 'ab': the longer branch succeeds, the shorter
\* one fails at the end of the input, and the cursor is assigned the end
C36_Witness ==
  /\ call.parser.op \in {"parallel", "choices", "attempt", "chainLeftMore", "bind"}
  /\ call.out.status = "ok"
  /\ call.entry.future # <<>>
  /\ call.out.sp.future = <<>>
  /\ lexer.sp = call.out.sp


\* ------------------------------------------------- parallel, step by step
\* both branches have run to their end and the promise of the call is
\* settled
Quiet ==
  /\ heap.par.phase = "settled"
  /\ heap.par.ifOut.status # "none"
  /\ heap.par.elseOut.status # "none"

\* the if branch run to its end, then the else branch, then the handler
InTurn ==
  Parse(parallelP(heap.par.ifParser, heap.par.elseParser),
        [sp |-> heap.par.entry, ruleSet |-> heap.lexers[1].ruleSet])

FailedByElse(r) ==
  /\ r.status = "fail"
  /\ Len(r.log) = 2
  /\ r.log[2].role = "else"
  /\ r.log[2].status = "fail"

\* what the parser of the log entry e did, run again from where it started
Again(e) == Parse(e.parser, [sp |-> e.entry, ruleSet |-> lexer.ruleSet])

\* the log entry e is an ifElse that failed because its else branch failed,
\* or a choices that failed because all its branches failed
FailedBacktracking(e) ==
  \/ e.parser.op = "ifElse" /\ FailedByElse(Again(e))
  \/ e.parser.op = "choices" /\ e.status = "fail"

\* a branch of the failure r had read input on its clone
ReadOnClone(r) == \E i \in 1..Len(r.log) : r.log[i].status = "fail" /\ r.log[i].exit # r.log[i].entry

\* C38: when ifElse(p, q) fails because q failed, and when choices fails
\* because every branch failed, the caller's cursor is where it was at entry,
\* whatever the branches read on their clones; a many around such a failure
\* ends with its list, and an ifElse around it runs its else branch.
C38_FailureAtEntry ==
  /\ (call.parser.op = "ifElse" /\ FailedByElse(call.out)) =>
       (call.out.sp = call.entry /\ lexer.sp = call.entry)
  /\ (call.parser.op = "choices" /\ call.out.status = "fail") =>
       (call.out.sp = call.entry /\ lexer.sp = call.entry)
  /\ (call.parser.op = "many" /\ Len(call.out.log) >= 1
      /\ FailedBacktracking(call.out.log[Len(call.out.log)])) =>
       /\ call.out.status = "ok"
       /\ lexer.sp = call.out.log[Len(call.out.log)].entry
  /\ (call.parser.op = "ifElse" /\ Len(call.out.log) >= 1
      /\ FailedBacktracking(call.out.log[1])) =>
       /\ Len(call.out.log) = 2
       /\ call.out.log[2].entry = call.entry

\* many(choices(...)) has read a list, and ends at a choices whose branches
\* all fail after reading a token each on their clones
C38_Witness ==
  /\ call.parser.op = "many"
  /\ call.parser.ps[1].op = "choices"
  /\ call.out.status = "ok"
  /\ Len(call.out.log) >= 2
  /\ call.out.log[Len(call.out.log)].status = "fail"
  /\ ReadOnClone(Again(call.out.log[Len(call.out.log)]))
  /\ lexer.sp # call.entry


\* ------------------------------------------- a chain that ends half way
\* the last step of the chain: the operator read input and gave its
\* function, and the operand after it failed with a ParseFailure
HalfStep ==
  /\ call.parser.op = "chainLeftMore"
  /\ Len(Log) >= 3
  /\ Log[Len(Log)].role = "expr"
  /\ Log[Len(Log)].status = "fail"
  /\ Log[Len(Log) - 1].role = "operator"
  /\ Log[Len(Log) - 1].status = "ok"
  /\ Log[Len(Log) - 1].exit # Log[Len(Log) - 1].entry

\* C39: when the operator of a step of chainLeftMore reads input and the
\* operand after it fails with a ParseFailure, chainLeftMore succeeds with
\* the value folded so far, and the caller's cursor is where the failed
\* operand left it, at or after the end of the operator and not at the end of
\* the last operand of the result.
C39_NoRollBack ==
  HalfStep =>
    /\ call.out.status = "ok"
    /\ call.out.val = FoldLeft(ValuesOf(Log, "expr"), ValuesOf(Log, "operator"),
                               Len(ValuesOf(Log, "expr")))
    /\ lexer.sp = Log[Len(Log)].exit
    /\ AtOrAfter(lexer.sp, Log[Len(Log) - 1].exit)
    /\ lexer.sp # Log[Len(Log) - 2].exit

\* a b b read by chainLeftMore(token a, token b): the result is the first
\* a, and the cursor is after the first b, that no result accounts for
C39_Witness ==
  /\ HalfStep
  /\ call.entry.future = <<"a", "b", "b">>
  /\ Len(Log) = 3
  /\ call.out.status = "ok"
  /\ call.out.val = Log[1].val
  /\ Log[1].exit.future = <<"b", "b">>
  /\ lexer.sp.future = <<"b">>


\* ------------------------------------------ a block comment left open
\* C40: a block comment that is opened and never closed is no error: next()
\* reads to the end of the input and signals the peaceful end of file, no
\* ParseFailure, and anyToken reports the end of file it was given.
C40_OpenComment ==
  (call.parser = anyTokenP /\ lexer.ruleSet \in {RuleSetNested, RuleSetFlat}) =>
    \A ps \in CommentTexts :
      (call.entry.future = Flatten(ps)
       /\ Closings(ps, lexer.ruleSet.comment.nested.nested) = {}) =>
        /\ next(lexer.ruleSet, call.entry).kind = "EOF"
        /\ next(lexer.ruleSet, call.entry).err = NoErr
        /\ next(lexer.ruleSet, call.entry).sp.future = <<>>
        /\ call.out.status = "fail"
        /\ call.out.err.msg = <<"unexpected end of file, expected a token">>

\* /* /* */ 1 with nesting comments: the outer comment is never closed, and
\* the 1 is not read
C40_Witness ==
  /\ call.parser = anyTokenP
  /\ lexer.ruleSet = RuleSetNested
  /\ call.entry.future = Flatten(<<CommentBegin, CommentBegin, CommentEnd, <<"1">> >>)
  /\ Closings(<<CommentBegin, CommentBegin, CommentEnd, <<"1">> >>, TRUE) = {}
  /\ next(lexer.ruleSet, call.entry).kind = "EOF"
  /\ call.out.status = "fail"

====
